---- MODULE Spec2Model ----
(***************************************************************************)
(* AI-Research-Hub backend: the paper search pipeline of                   *)
(* services/research_service.py (fan-out to the Semantic Scholar and arXiv *)
(* adapters, interleaved de-duplicating merge, page slicing), the detail   *)
(* lookup and analysis of one paper, the OllamaService executor, health    *)
(* probe and response parser, and DatabaseService over analyzed_papers.    *)
(*                                                                         *)
(* Python strings are sequences of one-character strings, so that          *)
(* str.lower(), str.strip(), str.split() and f-string concatenation are    *)
(* computed and not assumed.  A Python value that may be None, or a dict   *)
(* key that may be absent, is a record [t, s]: t is "str", "none" or       *)
(* "absent" and s the characters of the string.                            *)
(***************************************************************************)
EXTENDS Integers, Sequences, FiniteSets, TLC

VARIABLES
    \* ---- _merge_results called on its own (specification SpecMerge)
    mpc,        \* "input": arguments chosen; "returned": the call has returned
    mA,         \* argument semantic_results
    mB,         \* argument arxiv_results
    mOut,       \* the returned list
    \* ---- one search_papers call (specification Spec)
    pc,         \* "idle" | "gather" (awaiting asyncio.gather) | "done" | "raised"
    via,        \* "none" | "service" (direct call) | "api" (GET /search)
    apiSources, \* the `sources` query string of GET /search (PyVal; absent = not given)
    sourcesArg, \* the `sources` argument search_papers received (None or a list)
    page,       \* argument page
    limit,      \* argument limit
    sources,    \* local `sources` after line 62
    calls,      \* adapter coroutines created, in order: [src, limit, offset]
    tasks,      \* the two awaitables handed to gather: [kind, st, outcome, ret]
    order,      \* the order in which the awaitables completed
    combined,   \* local combined_results
    response,   \* the returned dict
    \* ---- one source adapter called on its own (specification SpecAdapter)
    apc,        \* "idle" | "called" | "returned"
    aCall,      \* the adapter and its arguments: [src, limit, offset]
    aResp,      \* what session.get answered
    aRet,       \* what the adapter returned (or that it raised)
    \* ---- one get_paper_details or analyze_paper call (specification SpecAnalyze)
    dpc,        \* "idle" | "arxiv_wait" | "semantic_wait" | "generating" |
                \* "returned" | "raised"
    dOp,        \* "none" | "details" | "analyze" | "health"
    dId,        \* argument paper_id
    dLookups,   \* the detail requests sent, in order: [src, id]
    dArxiv,     \* how the arXiv lookup ended: "none" | "found" | "empty" | "error"
    dPaper,     \* what get_paper_details returned: [found, paper]
    genCalls,   \* calls of ollama.generate made for this analyze_paper call
    genOutcome, \* "none" | "ok" | "failed": how the last of them ended
    dResult,    \* what the call gave its caller: "none" | "paper" | "not_found" |
                \* "analysis" | "error_dict" | "ValueError" | "Exception"
    dHealth,    \* what check_ollama_health returned:
                \* [status, model, model_version, error]
    dStatus,    \* the HTTP status the API route answers the call with, 0 before
    \* ---- concurrent requests that reach ollama.generate (specification SpecPool)
    ppc,        \* per request: "idle" | "queued" | "running" | "finished" |
                \* "returned" | "rejected"
    pVia,       \* per request: "none" | "api" | "service"
    pKind,      \* per request: "none" | "analyze" | "health"
    pExec,      \* per request: the executor it was submitted to
    pAtCeiling, \* per request: max_workers calls were running on that
                \* executor when it was submitted
    pQueue,     \* per executor: its work queue, oldest first
    \* ---- one _parse_analysis_response call (specification SpecParse)
    rpc,        \* "start" | "loop" | "returned" | "raised"
    rResponse,  \* argument `response`, as far as the loop has gone through it
    rLines,     \* the raw lines of it, in order
    current_section,  \* "none" or the key of the section the loop is in
    current_text,     \* the content lines gathered for it
    analysis,         \* the dict that is being filled
    rResult,    \* what the call returned: [error, analysis, raw_response]
    \* ---- DatabaseService calls on two sessions (specification SpecStore)
    dbRows,     \* the committed rows of analyzed_papers
    dbNextId,   \* next value of the id sequence
    dbClock,    \* the database server's clock
    dbStores,   \* store_paper_analysis calls made so far
    spc,        \* per session: "idle" | "added" | "inserted" | "conflict" |
                \* "returned"
    sRec,       \* per session: the record its store call was given
    sRow,       \* per session: the row its INSERT wrote (NoRow: none)
    sRet,       \* per session: what the call returned: [t, row]
    sErr,       \* per session: how the INSERT failed: "none" | "notnull" |
                \* "unique" | "storage"
    sFail,      \* per session: a later statement of the call failed
    sAdded,     \* per session: the call committed its row
    sOverlap,   \* the two sessions' latest calls were under way at the
                \* same time
    qLast       \* what the read made in the last step returned (NoQuery:
                \* the last step was no read)

mergeVars == <<mpc, mA, mB, mOut>>
searchVars == <<pc, via, apiSources, sourcesArg, page, limit, sources, calls,
                tasks, order, combined, response>>
adapterVars == <<apc, aCall, aResp, aRet>>
vars == <<mpc, mA, mB, mOut, pc, via, apiSources, sourcesArg, page, limit,
          sources, calls, tasks, order, combined, response,
          apc, aCall, aResp, aRet,
          dpc, dOp, dId, dLookups, dArxiv, dPaper, genCalls, genOutcome, dResult,
          dHealth, dStatus,
          ppc, pVia, pKind, pExec, pAtCeiling, pQueue,
          rpc, rResponse, rLines, current_section, current_text, analysis, rResult,
          dbRows, dbNextId, dbClock, dbStores, spc, sRec, sRow, sRet, sErr, sFail,
          sAdded, sOverlap, qLast>>
storeVars == <<dbRows, dbNextId, dbClock, dbStores, spc, sRec, sRow, sRet, sErr, sFail,
               sAdded, sOverlap, qLast>>
parseVars == <<rpc, rResponse, rLines, current_section, current_text, analysis, rResult>>
poolVars == <<ppc, pVia, pKind, pExec, pAtCeiling, pQueue>>
analyzeVars == <<dpc, dOp, dId, dLookups, dArxiv, dPaper, genCalls, genOutcome, dResult,
                 dHealth, dStatus>>

\* what an action of one component leaves alone
otherThanSearch == <<mergeVars, adapterVars, analyzeVars, poolVars, parseVars, storeVars>>
otherThanMerge == <<searchVars, adapterVars, analyzeVars, poolVars, parseVars, storeVars>>
otherThanAdapter == <<searchVars, mergeVars, analyzeVars, poolVars, parseVars, storeVars>>
otherThanAnalyze == <<searchVars, mergeVars, adapterVars, poolVars, parseVars, storeVars>>
otherThanPool == <<searchVars, mergeVars, adapterVars, analyzeVars, parseVars, storeVars>>
otherThanParse == <<searchVars, mergeVars, adapterVars, analyzeVars, poolVars, storeVars>>
otherThanStore == <<searchVars, mergeVars, adapterVars, analyzeVars, poolVars, parseVars>>

----------------------------------------------------------------------------
(* Bounds of the model *)

\* longest argument list given to _merge_results in SpecMerge
MaxMergeLen == 2
\* most records in one HTTP response of a source
MaxRaw == 2
\* largest page number requested
MaxPage == 2
\* largest page size requested (the sizes are 0..MaxLimit)
MaxLimit == 2
\* most requests that are under way at the same time in SpecPool
MaxRequests == 3
\* most lines of a generated text in SpecParse, the empty line after a
\* final newline not counted
MaxLines == 5
\* most store_paper_analysis calls in SpecStore
MaxStores == 2
\* largest limit given to get_recent_analyses (the limits are 0..MaxRecent)
MaxRecent == 1

----------------------------------------------------------------------------
(* Python values *)

None == [t |-> "none", s |-> <<>>]
Absent == [t |-> "absent", s |-> <<>>]
Str(chars) == [t |-> "str", s |-> chars]
\* the value of an expression that raised
Raised == [t |-> "exc", s |-> <<>>]

\* dict.get(key, default): the default only when the key is absent
DictGet(v, default) == IF v.t = "absent" THEN default ELSE v

\* truthiness of a str-or-None value
Truthy(v) == v.t = "str" /\ v.s # <<>>

\* the letters that str.lower() changes
LowerCase ==
    [c \in {"A","B","C","D","E","F","G","H","I","J","K","L","M",
            "N","O","P","Q","R","S","T","U","V","W","X","Y","Z"} |->
        CASE c = "A" -> "a" [] c = "B" -> "b" [] c = "C" -> "c" [] c = "D" -> "d"
          [] c = "E" -> "e" [] c = "F" -> "f" [] c = "G" -> "g" [] c = "H" -> "h"
          [] c = "I" -> "i" [] c = "J" -> "j" [] c = "K" -> "k" [] c = "L" -> "l"
          [] c = "M" -> "m" [] c = "N" -> "n" [] c = "O" -> "o" [] c = "P" -> "p"
          [] c = "Q" -> "q" [] c = "R" -> "r" [] c = "S" -> "s" [] c = "T" -> "t"
          [] c = "U" -> "u" [] c = "V" -> "v" [] c = "W" -> "w" [] c = "X" -> "x"
          [] c = "Y" -> "y" [] c = "Z" -> "z"]

LowerChar(c) == IF c \in DOMAIN LowerCase THEN LowerCase[c] ELSE c

\* str.lower(); AttributeError on None
Lower(v) ==
    IF v.t = "str" THEN Str([i \in 1..Len(v.s) |-> LowerChar(v.s[i])])
    ELSE Raised

\* str(x) as an f-string renders it: None prints as "None"
Format(v) == IF v.t = "str" THEN v.s ELSE <<"N", "o", "n", "e">>

S_semantic_scholar ==
    <<"s","e","m","a","n","t","i","c","_","s","c","h","o","l","a","r">>
S_arxiv == <<"a","r","x","i","v">>
S_pubmed == <<"p","u","b","m","e","d">>

SeqsUpTo(S, n) == UNION {[1..k -> S] : k \in 0..n}

Min(a, b) == IF a < b THEN a ELSE b
Max(a, b) == IF a < b THEN b ELSE a

\* Python slice xs[:n] for n >= 0
Take(xs, n) == SubSeq(xs, 1, Min(n, Len(xs)))

----------------------------------------------------------------------------
(* ResearchService._merge_results *)

\* a loop body that forgets the seen_titles test
VisitPaperNoSeen(st, paper) ==
    IF st.exc THEN st
    ELSE LET title == Lower(DictGet(paper.title, Str(<<>>)))
         IN  IF title.t = "exc" THEN [st EXCEPT !.exc = TRUE]
             ELSE IF Truthy(title)
                  THEN [merged |-> Append(st.merged, paper),
                        seen |-> st.seen \cup {title.s},
                        exc |-> FALSE]
                  ELSE st

\* lines 257-261 (and 265-269): one `paper` of the loop body
VisitPaper(st, paper) ==
    IF st.exc THEN st
    ELSE LET title == Lower(DictGet(paper.title, Str(<<>>)))
         IN  IF title.t = "exc" THEN [st EXCEPT !.exc = TRUE]
             ELSE IF Truthy(title) /\ title.s \notin st.seen
                  THEN [merged |-> Append(st.merged, paper),
                        seen |-> st.seen \cup {title.s},
                        exc |-> FALSE]
                  ELSE st

\* a loop that ends with the shorter list
RECURSIVE MergeLoopShortest(_, _, _, _)
MergeLoopShortest(i, st, semantic_results, arxiv_results) ==
    IF i > Min(Len(semantic_results), Len(arxiv_results)) THEN st
    ELSE MergeLoopShortest(i + 1,
                           VisitPaper(VisitPaper(st, semantic_results[i]), arxiv_results[i]),
                           semantic_results, arxiv_results)

\* lines 254-269: iterations i, i+1, ... of `for i in range(max_len)` (1-based)
RECURSIVE MergeLoop(_, _, _, _)
MergeLoop(i, st, semantic_results, arxiv_results) ==
    IF i > Max(Len(semantic_results), Len(arxiv_results)) THEN st
    ELSE LET s1 == IF i <= Len(semantic_results)
                   THEN VisitPaper(st, semantic_results[i]) ELSE st
             s2 == IF i <= Len(arxiv_results)
                   THEN VisitPaper(s1, arxiv_results[i]) ELSE s1
         IN  MergeLoop(i + 1, s2, semantic_results, arxiv_results)

\* a merge that concatenates the two lists instead of interleaving them
MergeConcatenated(semantic_results, arxiv_results) ==
    LET st == MergeLoop(1, [merged |-> <<>>, seen |-> {}, exc |-> FALSE],
                        semantic_results \o arxiv_results, <<>>)
    IN  IF st.exc THEN <<>> ELSE st.merged

\* lines 246-275; any exception inside is caught and [] returned
_merge_results(semantic_results, arxiv_results) ==
    LET st == MergeLoop(1, [merged |-> <<>>, seen |-> {}, exc |-> FALSE],
                        semantic_results, arxiv_results)
    IN  IF st.exc THEN <<>> ELSE st.merged

----------------------------------------------------------------------------
(* The common paper format.  Only the fields the merge and the callers'    *)
(* contracts read are kept: title, source and source_id (abstract,         *)
(* authors, year, venue, url and citations are carried through untouched). *)

Paper(title, source, source_id) ==
    [title |-> title, source |-> source, source_id |-> source_id]

List(xs) == [t |-> "list", v |-> xs]
NoneResult == [t |-> "none", v |-> <<>>]
RaisedResult == [t |-> "exc", v |-> <<>>]

----------------------------------------------------------------------------
(* ResearchService._search_semantic_scholar *)

\* one element of the "data" array of Semantic Scholar's JSON
SSRawPapers ==
    { [title |-> Str(<<"X", "y">>), paperId |-> Str(<<"1">>)],
      [title |-> Str(<<"p">>),      paperId |-> Str(<<"2">>)],
      [title |-> None,              paperId |-> Str(<<"3">>)],
      [title |-> Absent,            paperId |-> None] }

\* what session.get(...) gives: a transport error, a status, a body
SSFailures ==
    { [err |-> TRUE,  status |-> 0,   parses |-> FALSE, data |-> <<>>],
      [err |-> FALSE, status |-> 500, parses |-> FALSE, data |-> <<>>],
      [err |-> FALSE, status |-> 200, parses |-> FALSE, data |-> <<>>] }
SSResponses ==
    SSFailures \cup
    { [err |-> FALSE, status |-> 200, parses |-> TRUE, data |-> d] :
        d \in SeqsUpTo(SSRawPapers, MaxRaw) }

\* how a request ended: a transport error, a status other than 200, a body
\* that does not parse, or a body that does
Outcome(resp) ==
    IF resp.err THEN "transport"
    ELSE IF resp.status # 200 THEN "status"
    ELSE IF ~resp.parses THEN "payload"
    ELSE "ok"

\* lines 134-145: one raw paper in the common format
TransformSemantic(paper) ==
    Paper(DictGet(paper.title, Str(<<>>)),
          "Semantic Scholar",
          S_semantic_scholar \o <<"_">> \o Format(DictGet(paper.paperId, None)))

\* lines 125-151, the body of the try block
SemanticScholarBody(resp) ==
    IF resp.err THEN RaisedResult
    ELSE IF resp.status = 200
         THEN IF ~resp.parses THEN RaisedResult
              ELSE List([i \in 1..Len(resp.data) |-> TransformSemantic(resp.data[i])])
         ELSE List(<<>>)

\* the adapter without its except clause
SearchSemanticScholarUnguarded(resp) == SemanticScholarBody(resp)

\* lines 112-154: except Exception -> []
_search_semantic_scholar(resp) ==
    LET r == SemanticScholarBody(resp)
    IN  IF r.t = "exc" THEN List(<<>>) ELSE r

----------------------------------------------------------------------------
(* ResearchService._search_arxiv and _parse_arxiv_response *)

IsSpace(c) == c \in {" ", "\n", "\t"}

RECURSIVE LStrip(_)
LStrip(s) == IF s # <<>> /\ IsSpace(Head(s)) THEN LStrip(Tail(s)) ELSE s

RECURSIVE RStrip(_)
RStrip(s) ==
    IF s # <<>> /\ IsSpace(s[Len(s)]) THEN RStrip(SubSeq(s, 1, Len(s) - 1)) ELSE s

\* str.strip()
Strip(s) == RStrip(LStrip(s))

\* str.replace('\n', ' ')
ReplaceNewlines(s) == [i \in 1..Len(s) |-> IF s[i] = "\n" THEN " " ELSE s[i]]

\* str.split('/')[-1]: the characters after the last '/'
RECURSIVE LastSegment(_)
LastSegment(s) ==
    IF s = <<>> THEN <<>>
    ELSE IF s[Len(s)] = "/" THEN <<>>
    ELSE Append(LastSegment(SubSeq(s, 1, Len(s) - 1)), s[Len(s)])

\* one <entry> of the Atom feed: the text of its <title> (absent: no such
\* element; none: an element without text) and of its <id>; its other
\* elements (summary, authors, published, primary_category) are present
AXEntries ==
    { [title |-> Str(<<"x", "Y">>),       id |-> <<"a", "/", "7">>],
      [title |-> Str(<<" ", "q", "\n">>), id |-> <<"a", "/", "8">>],
      [title |-> Str(<<" ">>),            id |-> <<"a", "/", "6">>],
      [title |-> Absent,                  id |-> <<"a", "/", "9">>] }

AXFailures ==
    { [err |-> TRUE,  status |-> 0,   parses |-> FALSE, entries |-> <<>>],
      [err |-> FALSE, status |-> 500, parses |-> FALSE, entries |-> <<>>],
      [err |-> FALSE, status |-> 200, parses |-> FALSE, entries |-> <<>>] }
AXResponses ==
    AXFailures \cup
    { [err |-> FALSE, status |-> 200, parses |-> TRUE, entries |-> d] :
        d \in SeqsUpTo(AXEntries, MaxRaw) }

\* lines 209-239: entries whose parsing raises are skipped
RECURSIVE ParseEntries(_)
ParseEntries(entries) ==
    IF entries = <<>> THEN <<>>
    ELSE LET entry == Head(entries)
             rest == ParseEntries(Tail(entries))
         IN  IF entry.title.t # "str" THEN rest
             ELSE <<[title |-> Str(ReplaceNewlines(Strip(entry.title.s))),
                     source |-> "arXiv",
                     arxiv_id |-> LastSegment(entry.id)]>> \o rest

\* lines 195-244: malformed XML -> []
_parse_arxiv_response(xml) ==
    IF ~xml.parses THEN <<>> ELSE ParseEntries(xml.entries)

\* lines 173-190, the body of the try block
ArxivBody(resp) ==
    IF resp.err THEN RaisedResult
    ELSE IF resp.status = 200
         THEN LET results == _parse_arxiv_response(resp)
              IN  List([i \in 1..Len(results) |->
                        Paper(results[i].title, results[i].source,
                              S_arxiv \o <<"_">> \o results[i].arxiv_id)])
         ELSE List(<<>>)

\* the adapter without its except clause
SearchArxivUnguarded(resp) == ArxivBody(resp)

\* lines 156-193: except Exception -> []
_search_arxiv(resp) ==
    LET r == ArxivBody(resp)
    IN  IF r.t = "exc" THEN List(<<>>) ELSE r

NoCall == [src |-> "none", limit |-> 0, offset |-> 0]
NoHttpResponse == [err |-> FALSE, status |-> 0, parses |-> FALSE]

IdleAdapter ==
    /\ apc = "idle"
    /\ aCall = NoCall
    /\ aResp = NoHttpResponse
    /\ aRet = NoneResult

NoPaper == [found |-> FALSE, paper |-> Paper(None, "none", <<>>)]
Found(paper) == [found |-> TRUE, paper |-> paper]

\* no health report yet
NoHealth == [status |-> "none", model |-> "none", model_version |-> "none", error |-> "none"]

IdleAnalyze ==
    /\ dpc = "idle"
    /\ dOp = "none"
    /\ dId = <<>>
    /\ dLookups = <<>>
    /\ dArxiv = "none"
    /\ dPaper = NoPaper
    /\ genCalls = 0
    /\ genOutcome = "none"
    /\ dResult = "none"
    /\ dHealth = NoHealth
    /\ dStatus = 0

\* the requests, and the executors: executor 0 belongs to the OllamaService of
\* a ResearchService that several callers share, executor r to the service
\* that is constructed for request r
Requests == 1..MaxRequests
Executors == 0..MaxRequests

IdlePool ==
    /\ ppc = [r \in Requests |-> "idle"]
    /\ pVia = [r \in Requests |-> "none"]
    /\ pKind = [r \in Requests |-> "none"]
    /\ pExec = [r \in Requests |-> 0]
    /\ pAtCeiling = [r \in Requests |-> FALSE]
    /\ pQueue = [e \in Executors |-> <<>>]

\* lines 89-95: the dict the parser starts from
EmptyAnalysis ==
    [summary |-> <<>>, key_findings |-> <<>>, methodology |-> <<>>,
     applications |-> <<>>, future_work |-> <<>>]

NoParseResult == [error |-> FALSE, analysis |-> EmptyAnalysis, raw_response |-> None]

\* the database sessions; every DatabaseService has its own.  They are
\* numbered by first use.
Sessions == 1..2

\* models.py lines 64-82: a row of analyzed_papers.  abstract, authors, year,
\* venue, url, citations and the other analysis columns are written and
\* read exactly like summary and are left out.
Row(id, source_id, title, source, summary, created_at) ==
    [id |-> id, source_id |-> source_id, title |-> title, source |-> source,
     summary |-> summary, created_at |-> created_at]
NoRow == Row(0, None, None, "none", 0, 0)

\* paper_data and analysis_data of one store call, as .get() reads them
\* (None for a missing key)
Record(source_id, title, source, summary) ==
    [source_id |-> source_id, title |-> title, source |-> source, summary |-> summary]
NoRecord == Record(None, None, "none", 0)

\* return values of store_paper_analysis
NoReturn == [t |-> "pending", row |-> NoRow]
NoneReturn == [t |-> "none", row |-> NoRow]

NoQuery ==
    [op |-> "none", source_id |-> None, limit |-> 0, failed |-> FALSE, list |-> <<>>,
     stats |-> [total_papers |-> 0, arxiv_papers |-> 0, semantic_scholar_papers |-> 0]]

IdleStore ==
    /\ dbRows = {}
    /\ dbNextId = 1
    /\ dbClock = 1
    /\ dbStores = 0
    /\ spc = [s \in Sessions |-> "idle"]
    /\ sRec = [s \in Sessions |-> NoRecord]
    /\ sRow = [s \in Sessions |-> NoRow]
    /\ sRet = [s \in Sessions |-> NoReturn]
    /\ sErr = [s \in Sessions |-> "none"]
    /\ sFail = [s \in Sessions |-> FALSE]
    /\ sAdded = [s \in Sessions |-> FALSE]
    /\ sOverlap = FALSE
    /\ qLast = NoQuery

IdleParse ==
    /\ rpc = "start"
    /\ rResponse = Str(<<>>)
    /\ rLines = <<>>
    /\ current_section = "none"
    /\ current_text = <<>>
    /\ analysis = EmptyAnalysis
    /\ rResult = NoParseResult

----------------------------------------------------------------------------
(* GET /search (api/research.py) *)

\* str.split(','): the pieces between the commas
RECURSIVE SplitComma(_, _, _)
SplitComma(s, cur, acc) ==
    IF s = <<>> THEN Append(acc, cur)
    ELSE IF Head(s) = "," THEN SplitComma(Tail(s), <<>>, Append(acc, cur))
    ELSE SplitComma(Tail(s), Append(cur, Head(s)), acc)

Split(s) == SplitComma(s, <<>>, <<>>)

DefaultSources == <<S_semantic_scholar, S_arxiv>>

\* line 26: the default of the `sources` query parameter
DefaultSourcesParam == S_semantic_scholar \o <<",">> \o S_arxiv

\* line 32: sources.split(',') if sources else [...]
ApiSourceList(param) ==
    LET given == DictGet(param, Str(DefaultSourcesParam))
    IN  IF Truthy(given) THEN Split(given.s) ELSE DefaultSources

\* the query strings a client sends (Absent: no `sources` parameter)
ApiSourceParams ==
    { Absent, Str(<<>>), Str(S_arxiv), Str(S_semantic_scholar),
      Str(S_arxiv \o <<",">> \o S_pubmed), Str(S_arxiv \o <<",">> \o S_arxiv) }

----------------------------------------------------------------------------
(* ResearchService.search_papers *)

\* the `sources` arguments of a direct call
ServiceSourceArgs ==
    { NoneResult, List(<<>>), List(<<S_semantic_scholar>>), List(<<S_arxiv>>),
      List(DefaultSources), List(<<S_pubmed>>) }

\* x in xs
In(x, xs) == \E i \in 1..Len(xs) : xs[i] = x

\* a default that leaves arXiv out
EffectiveSourcesSemanticOnly(arg) ==
    IF arg.t = "list" /\ arg.v # <<>> THEN arg.v ELSE <<S_semantic_scholar>>

\* line 62: sources or ["semantic_scholar", "arxiv"]
EffectiveSources(arg) ==
    IF arg.t = "list" /\ arg.v # <<>> THEN arg.v ELSE DefaultSources

\* an offset that counts the requested page in
OffsetThroughPage(p, l) == p * l

\* line 57
Offset(p, l) == (p - 1) * l

\* a per-source request of just one page
PerSourceLimitSingle(l) == l

\* line 59
PerSourceLimit(l) == l * 2

Sleep == [kind |-> "sleep", st |-> "pending", outcome |-> "none", ret |-> NoneResult]
Coroutine(kind) ==
    [kind |-> kind, st |-> "pending", outcome |-> "none", ret |-> NoneResult]

\* tasks that query Semantic Scholar whatever the sources
MakeTasksAlwaysSemantic(srcs) ==
    << Coroutine("semantic_scholar"),
       IF In(S_arxiv, srcs) THEN Coroutine("arxiv") ELSE Sleep >>

\* lines 63-74: one awaitable per source, a sleep(0) for a source left out
MakeTasks(srcs) ==
    << IF In(S_semantic_scholar, srcs) THEN Coroutine("semantic_scholar") ELSE Sleep,
       IF In(S_arxiv, srcs) THEN Coroutine("arxiv") ELSE Sleep >>

\* lines 67 and 72: the arguments each adapter coroutine is created with
CallsOf(tsk, p, l) ==
    LET c(i) == IF tsk[i].kind = "sleep" THEN <<>>
                ELSE <<[src |-> tsk[i].kind, limit |-> PerSourceLimit(l),
                        offset |-> Offset(p, l)]>>
    IN  c(1) \o c(2)

\* results handed back in the order the awaitables finished
GatherByCompletion(tsk, ord) ==
    [i \in 1..Len(tsk) |-> tsk[ord[i]].ret]

\* line 78: asyncio.gather returns the results in the order of its arguments
Gather(tsk, ord) ==
    [i \in 1..Len(tsk) |-> tsk[i].ret]

\* lines 81-82: results[i] if name in sources else []
SelectResult(results, i, name, srcs) ==
    IF In(name, srcs) THEN results[i] ELSE List(<<>>)

\* a slice that applies the page offset a second time
PageSliceOffsetAgain(merged, p, l) ==
    SubSeq(merged, Min(Offset(p, l), Len(merged)) + 1, Min(Offset(p, l) + l, Len(merged)))

\* line 98: combined_results[:limit]
PageSlice(merged, p, l) == Take(merged, l)

\* an estimate that forgets the + 1
TotalEstimateTimesPage(merged, p) == Len(merged) * p

\* line 91: len(combined_results) * (page + 1)
TotalEstimate(merged, p) == Len(merged) * (p + 1)

NoResponse ==
    [results |-> <<>>, total |-> 0, page |-> 0, limit |-> 0, sources |-> <<>>]

IdleSearch ==
    /\ pc = "idle"
    /\ via = "none"
    /\ apiSources = Absent
    /\ sourcesArg = NoneResult
    /\ page = 0
    /\ limit = 0
    /\ sources = <<>>
    /\ calls = <<>>
    /\ tasks = <<>>
    /\ order = <<>>
    /\ combined = <<>>
    /\ response = NoResponse

\* lines 55-78: up to the await of asyncio.gather
Enter(param, arg, p, l) ==
    /\ pc' = "gather"
    /\ apiSources' = param
    /\ sourcesArg' = arg
    /\ page' = p
    /\ limit' = l
    /\ sources' = EffectiveSources(arg)
    /\ tasks' = MakeTasks(EffectiveSources(arg))
    /\ calls' = CallsOf(MakeTasks(EffectiveSources(arg)), p, l)
    /\ UNCHANGED <<order, combined, response>>
    /\ UNCHANGED otherThanSearch

\* a caller of the service passes `sources` itself
CallService ==
    /\ pc = "idle"
    /\ via' = "service"
    /\ \E arg \in ServiceSourceArgs, p \in 1..MaxPage, l \in 0..MaxLimit :
        Enter(Absent, arg, p, l)

\* GET /search: api/research.py lines 21-34
CallApi ==
    /\ pc = "idle"
    /\ via' = "api"
    /\ \E param \in ApiSourceParams, p \in 1..MaxPage, l \in 0..MaxLimit :
        Enter(param, List(ApiSourceList(param)), p, l)

Complete(i, ret, outcome) ==
    /\ tasks' = [tasks EXCEPT ![i] = [@ EXCEPT !.st = "done", !.ret = ret,
                                                !.outcome = outcome]]
    /\ order' = Append(order, i)
    /\ UNCHANGED <<pc, via, apiSources, sourcesArg, page, limit, sources, calls,
                   combined, response>>
    /\ UNCHANGED otherThanSearch

\* the Semantic Scholar request gets its answer and the adapter returns
CompleteSemanticScholar ==
    /\ pc = "gather"
    /\ tasks[1].kind = "semantic_scholar"
    /\ tasks[1].st = "pending"
    /\ \E resp \in SSResponses : Complete(1, _search_semantic_scholar(resp), Outcome(resp))

\* the arXiv request gets its answer and the adapter returns
CompleteArxiv ==
    /\ pc = "gather"
    /\ tasks[2].kind = "arxiv"
    /\ tasks[2].st = "pending"
    /\ \E resp \in AXResponses : Complete(2, _search_arxiv(resp), Outcome(resp))

\* asyncio.sleep(0) returns None
CompleteSleep ==
    /\ pc = "gather"
    /\ \E i \in 1..2 :
        /\ tasks[i].kind = "sleep"
        /\ tasks[i].st = "pending"
        /\ Complete(i, NoneResult, "none")

\* lines 78-105: gather returns, merge, slice, return
\* (lines 107-110: an exception is logged and raised again)
Finish ==
    /\ pc = "gather"
    /\ \A i \in 1..2 : tasks[i].st = "done"
    /\ LET results == Gather(tasks, order)
           semantic_results == SelectResult(results, 1, S_semantic_scholar, sources)
           arxiv_results == SelectResult(results, 2, S_arxiv, sources)
           raises == \/ \E i \in 1..2 : results[i].t = "exc"
                     \/ semantic_results.t # "list"
                     \/ arxiv_results.t # "list"
           combined_results == _merge_results(semantic_results.v, arxiv_results.v)
       IN  IF raises
           THEN /\ pc' = "raised"
                /\ UNCHANGED <<combined, response>>
           ELSE /\ pc' = "done"
                /\ combined' = combined_results
                /\ response' = [results |-> PageSlice(combined_results, page, limit),
                                total |-> TotalEstimate(combined_results, page),
                                page |-> page,
                                limit |-> limit,
                                sources |-> sources]
    /\ UNCHANGED <<via, apiSources, sourcesArg, page, limit, sources, calls, tasks, order>>
    /\ UNCHANGED otherThanSearch

----------------------------------------------------------------------------
(* _merge_results on its own *)

\* the titles of the records given to the merge
MergeTitles ==
    { None, Absent, Str(<<>>), Str(<<"X", "y">>), Str(<<"x", "Y">>),
      Str(<<"p">>), Str(<<"q">>), Str(<<"r">>) }

Digit == <<"1", "2", "3", "4", "5", "6", "7", "8", "9">>

\* the records of one source: the i-th has native id i
RecordsOf(titles, source, prefix) ==
    [i \in 1..Len(titles) |-> Paper(titles[i], source, prefix \o <<"_", Digit[i]>>)]

IdleMerge ==
    /\ mpc = "idle"
    /\ mA = <<>>
    /\ mB = <<>>
    /\ mOut = <<>>

InitMerge ==
    /\ mpc = "input"
    /\ mA \in {RecordsOf(t, "Semantic Scholar", S_semantic_scholar) :
                 t \in SeqsUpTo(MergeTitles, MaxMergeLen)}
    /\ mB \in {RecordsOf(t, "arXiv", S_arxiv) :
                 t \in SeqsUpTo(MergeTitles, MaxMergeLen)}
    /\ mOut = <<>>
    /\ IdleSearch
    /\ IdleAdapter
    /\ IdleAnalyze
    /\ IdlePool
    /\ IdleParse
    /\ IdleStore

CallMerge ==
    /\ mpc = "input"
    /\ mpc' = "returned"
    /\ mOut' = _merge_results(mA, mB)
    /\ UNCHANGED <<mA, mB>>
    /\ UNCHANGED otherThanMerge

NextMerge == CallMerge

SpecMerge == InitMerge /\ [][NextMerge]_vars

----------------------------------------------------------------------------
(* One search_papers call *)

Init ==
    /\ IdleSearch /\ IdleMerge /\ IdleAdapter /\ IdleAnalyze /\ IdlePool /\ IdleParse
    /\ IdleStore

Next ==
    \/ CallService
    \/ CallApi
    \/ CompleteSemanticScholar
    \/ CompleteArxiv
    \/ CompleteSleep
    \/ Finish

Spec == Init /\ [][Next]_vars

----------------------------------------------------------------------------
(* search_papers against sources that rank their records: the record at  *)
(* native position n (from 0) of a source is the n-th of its ranking for  *)
(* the query, and a request with limit and offset is answered with the    *)
(* records at positions offset .. offset + limit - 1 that exist.          *)

PositionName ==
    <<"0", "1", "2", "3", "4", "5", "6", "7", "8", "9", "a", "b", "c", "d", "e", "f">>
Name(n) == <<PositionName[n + 1]>>

\* how many records a source's ranking can have
RankingSizes == 0..((MaxPage + 1) * MaxLimit)

\* Semantic Scholar's JSON for the record at position n
SSRanked(n) == [title |-> Str(<<"s">> \o Name(n)), paperId |-> Str(Name(n))]

\* arXiv's <entry> at position n: with a title of its own, or with the
\* title of Semantic Scholar's record at n in another case
AXRanked(n, shared) ==
    [title |-> Str(<<IF shared THEN "S" ELSE "a">> \o Name(n)),
     id |-> <<"a", "/">> \o Name(n)]

\* the positions a ranking of `size` records gives for limit and offset
Window(call, size) ==
    [i \in 1..Max(0, Min(call.offset + call.limit, size) - call.offset) |->
        call.offset + i - 1]

\* the arguments the adapter of source `kind` was called with
CallOf(kind) == CHOOSE c \in {calls[i] : i \in 1..Len(calls)} : c.src = kind

\* lines 118-151: the Semantic Scholar request is answered with the window
SemanticScholarAnswersWindow ==
    /\ pc = "gather"
    /\ tasks[1].kind = "semantic_scholar"
    /\ tasks[1].st = "pending"
    /\ \E size \in RankingSizes :
         LET w == Window(CallOf("semantic_scholar"), size)
             resp == [err |-> FALSE, status |-> 200, parses |-> TRUE,
                      data |-> [i \in 1..Len(w) |-> SSRanked(w[i])]]
         IN  Complete(1, _search_semantic_scholar(resp), Outcome(resp))

\* lines 165-187: the arXiv request is answered with the window
ArxivAnswersWindow ==
    /\ pc = "gather"
    /\ tasks[2].kind = "arxiv"
    /\ tasks[2].st = "pending"
    /\ \E size \in RankingSizes, shared \in BOOLEAN :
         LET w == Window(CallOf("arxiv"), size)
             resp == [err |-> FALSE, status |-> 200, parses |-> TRUE,
                      entries |-> [i \in 1..Len(w) |-> AXRanked(w[i], shared)]]
         IN  Complete(2, _search_arxiv(resp), Outcome(resp))

NextPage ==
    \/ CallService
    \/ SemanticScholarAnswersWindow
    \/ ArxivAnswersWindow
    \/ CompleteSleep
    \/ Finish

SpecPage == Init /\ [][NextPage]_vars

----------------------------------------------------------------------------
(* One source adapter on its own *)

\* the adapter calls search_papers makes: lines 57, 59, 67 and 72
InitAdapter ==
    /\ apc = "called"
    /\ aCall \in { [src |-> src, limit |-> PerSourceLimit(l), offset |-> Offset(p, l)] :
                      src \in {"semantic_scholar", "arxiv"},
                      p \in 1..MaxPage, l \in 0..MaxLimit }
    /\ aResp = NoHttpResponse
    /\ aRet = NoneResult
    /\ IdleSearch
    /\ IdleMerge
    /\ IdleAnalyze
    /\ IdlePool
    /\ IdleParse
    /\ IdleStore

AdapterReturns(resp, ret) ==
    /\ apc' = "returned"
    /\ aResp' = resp
    /\ aRet' = ret
    /\ UNCHANGED aCall
    /\ UNCHANGED otherThanAdapter

\* _search_semantic_scholar(query, limit, offset) runs to its return
CallSemanticScholarAdapter ==
    /\ apc = "called"
    /\ aCall.src = "semantic_scholar"
    /\ \E resp \in SSResponses : AdapterReturns(resp, _search_semantic_scholar(resp))

\* _search_arxiv(query, limit, offset) runs to its return
CallArxivAdapter ==
    /\ apc = "called"
    /\ aCall.src = "arxiv"
    /\ \E resp \in AXResponses : AdapterReturns(resp, _search_arxiv(resp))

NextAdapter ==
    \/ CallSemanticScholarAdapter
    \/ CallArxivAdapter

SpecAdapter == InitAdapter /\ [][NextAdapter]_vars

----------------------------------------------------------------------------
(* ResearchService.get_paper_details and analyze_paper,                    *)
(* OllamaService.analyze_paper                                             *)

S_arxiv_colon == S_arxiv \o <<":">>
S_arXiv_colon == <<"a", "r", "X", "i", "v", ":">>
S_semantic_scholar_ == S_semantic_scholar \o <<"_">>

\* str.startswith(prefix)
PyStartsWith(s, prefix) ==
    Len(s) >= Len(prefix) /\ SubSeq(s, 1, Len(prefix)) = prefix

\* str.split(sep)[-1] for a one-character sep
RECURSIVE LastField(_, _)
LastField(s, sep) ==
    IF s = <<>> THEN <<>>
    ELSE IF s[Len(s)] = sep THEN <<>>
    ELSE Append(LastField(SubSeq(s, 1, Len(s) - 1), sep), s[Len(s)])

\* str.replace(old, ""): every occurrence of old removed, left to right
RECURSIVE RemoveAll(_, _)
RemoveAll(s, old) ==
    IF s = <<>> THEN <<>>
    ELSE IF PyStartsWith(s, old) THEN RemoveAll(SubSeq(s, Len(old) + 1, Len(s)), old)
    ELSE <<Head(s)>> \o RemoveAll(Tail(s), old)

\* a prefix test that knows only the lower-case spelling
HasArxivPrefixLowerOnly(paper_id) == PyStartsWith(paper_id, S_arxiv_colon)

\* line 286: paper_id.startswith(("arxiv:", "arXiv:"))
HasArxivPrefix(paper_id) ==
    PyStartsWith(paper_id, S_arxiv_colon) \/ PyStartsWith(paper_id, S_arXiv_colon)

\* line 287
ArxivIdOf(paper_id) == LastField(paper_id, ":")

\* lines 300-303
SemanticIdOf(paper_id) ==
    IF PyStartsWith(paper_id, S_semantic_scholar_)
    THEN RemoveAll(paper_id, S_semantic_scholar_)
    ELSE paper_id

\* the ids callers pass: arXiv-prefixed, Semantic-Scholar-prefixed, bare, and
\* the source_id of an arXiv record
PaperIds ==
    { S_arxiv_colon \o <<"7">>, S_arXiv_colon \o <<"7">>,
      S_semantic_scholar_ \o <<"1">>, <<"1">>, S_arxiv \o <<"_", "7">> }

\* what the GET of /paper/{id} answers: one raw paper when it parses
SSDetailResponses ==
    { [err |-> TRUE,  status |-> 0,   parses |-> FALSE, data |-> <<>>],
      [err |-> FALSE, status |-> 404, parses |-> FALSE, data |-> <<>>],
      [err |-> FALSE, status |-> 200, parses |-> FALSE, data |-> <<>>] } \cup
    { [err |-> FALSE, status |-> 200, parses |-> TRUE, data |-> <<d>>] :
        d \in SSRawPapers }

\* lines 289-297: the arXiv lookup; "error" when the request raises
\* (caught at line 330), "empty" when it falls through to line 299
ArxivLookup(resp, arxiv_id) ==
    IF resp.err THEN [how |-> "error", ret |-> NoPaper]
    ELSE IF resp.status = 200 /\ _parse_arxiv_response(resp) # <<>>
         THEN LET paper == _parse_arxiv_response(resp)[1]
              IN  [how |-> "found",
                   ret |-> Found(Paper(paper.title, paper.source,
                                       S_arxiv \o <<"_">> \o arxiv_id))]
         ELSE [how |-> "empty", ret |-> NoPaper]

\* lines 306-328 and 330-333: the Semantic Scholar lookup
SemanticLookup(resp) ==
    IF resp.err THEN NoPaper
    ELSE IF resp.status = 200
         THEN IF ~resp.parses THEN NoPaper
              ELSE Found(TransformSemantic(resp.data[1]))
         ELSE NoPaper

\* what the body of a route ends with: a value, or an exception of a class;
\* fastapi answers an HTTPException with its status_code
BodyReturns == [raised |-> FALSE, class |-> "none", status |-> 200]

BodyRaises(class) == [raised |-> TRUE, class |-> class, status |-> 500]

HTTPException(status_code) ==
    [raised |-> TRUE, class |-> "HTTPException", status |-> status_code]

\* `except <handler>` catches an exception of class `class`: ValueError and
\* HTTPException derive from Exception
Catches(handler, class) == handler = "Exception" \/ handler = class

\* try: body / except h1: raise HTTPException(s1) / except h2: ... -- the first
\* clause that catches what the body raised answers; what a clause raises is
\* not caught by the clauses after it
TryExcept(body, handlers) ==
    LET hit == {i \in 1..Len(handlers) : Catches(handlers[i].class, body.class)}
    IN  IF ~body.raised \/ hit = {} THEN body
        ELSE HTTPException(handlers[CHOOSE i \in hit : \A j \in hit : i <= j].status)

\* the status of the response
StatusOf(outcome) == outcome.status

\* api/research.py lines 38-50: GET /paper/{paper_id}; `if not paper` raises
\* inside the try
get_paper_detailsRoute(ret) ==
    TryExcept(IF ~ret.found THEN HTTPException(404) ELSE BodyReturns,
              <<[class |-> "Exception", status |-> 500]>>)

\* api/research.py lines 52-64: POST /analyze/{paper_id}, for how
\* ResearchService.analyze_paper ended
analyze_paperRoute(step) ==
    TryExcept(IF step.pc = "raised" THEN BodyRaises(step.result) ELSE BodyReturns,
              <<[class |-> "ValueError", status |-> 404],
                [class |-> "Exception", status |-> 500]>>)

\* api/research.py lines 8-19: GET /health/ollama, for how
\* ResearchService.check_ollama_health ended
check_ollama_healthRoute(step) ==
    TryExcept(IF step.raised THEN BodyRaises("Exception")
              ELSE IF step.result.status # "healthy" THEN HTTPException(503)
              ELSE BodyReturns,
              <<[class |-> "Exception", status |-> 503]>>)

\* an analyze_paper that does not test what get_paper_details returned
AfterDetailsUnchecked(op, ret) ==
    IF op = "details"
    THEN [pc |-> "returned", result |-> IF ret.found THEN "paper" ELSE "not_found",
          gen |-> 0]
    ELSE [pc |-> "generating", result |-> "none", gen |-> 1]

\* get_paper_details has returned `ret`: its caller gets it, or analyze_paper
\* goes on (research_service.py lines 341-349, ollama_service.py lines 21-36):
\* not found raises ValueError, found submits one generation to the executor
AfterDetails(op, ret) ==
    IF op = "details"
    THEN [pc |-> "returned", result |-> IF ret.found THEN "paper" ELSE "not_found",
          gen |-> 0]
    ELSE IF ~ret.found
         THEN [pc |-> "raised", result |-> "ValueError", gen |-> 0]
         ELSE [pc |-> "generating", result |-> "none", gen |-> 1]

\* an OllamaService.analyze_paper that tries a failed generation once more
AfterGenerationRetrying(ok, made) ==
    IF ok THEN [pc |-> "returned", result |-> "analysis", again |-> FALSE]
    ELSE IF made < 2 THEN [pc |-> "generating", result |-> "none", again |-> TRUE]
    ELSE [pc |-> "returned", result |-> "error_dict", again |-> FALSE]

\* ollama_service.py lines 38-49 and research_service.py lines 352-359:
\* the generation ended; a failure is caught and an error dict returned,
\* to which analyze_paper adds paper_metadata and which it returns
AfterGeneration(ok, made) ==
    IF ok THEN [pc |-> "returned", result |-> "analysis", again |-> FALSE]
    ELSE [pc |-> "returned", result |-> "error_dict", again |-> FALSE]

\* lines 279-306: up to the first request
Begin(op, paper_id) ==
    /\ dpc = "idle"
    /\ dOp' = op
    /\ dId' = paper_id
    /\ IF HasArxivPrefix(paper_id)
       THEN /\ dpc' = "arxiv_wait"
            /\ dLookups' = <<[src |-> "arxiv", id |-> ArxivIdOf(paper_id)]>>
       ELSE /\ dpc' = "semantic_wait"
            /\ dLookups' = <<[src |-> "semantic_scholar", id |-> SemanticIdOf(paper_id)]>>
    /\ UNCHANGED <<dArxiv, dPaper, genCalls, genOutcome, dResult, dHealth, dStatus>>
    /\ UNCHANGED otherThanAnalyze

\* ResearchService.get_paper_details(paper_id) is called
CallDetails ==
    \E paper_id \in PaperIds : Begin("details", paper_id) /\ dOp' = "details"

\* ResearchService.analyze_paper(paper_id) is called
CallAnalyze ==
    \E paper_id \in PaperIds : Begin("analyze", paper_id) /\ dOp' = "analyze"

\* get_paper_details returns `ret`; the route of the call answers unless a
\* generation is awaited
DetailsReturn(ret) ==
    LET step == AfterDetails(dOp, ret)
    IN  /\ dPaper' = ret
        /\ dpc' = step.pc
        /\ dResult' = step.result
        /\ genCalls' = step.gen
        /\ dStatus' = IF step.pc = "generating" THEN dStatus
                      ELSE IF dOp = "details" THEN StatusOf(get_paper_detailsRoute(ret))
                      ELSE StatusOf(analyze_paperRoute(step))

\* the arXiv lookup is answered
ArxivDetailResponse ==
    /\ dpc = "arxiv_wait"
    /\ \E resp \in AXResponses :
         LET look == ArxivLookup(resp, ArxivIdOf(dId))
         IN  /\ dArxiv' = look.how
             /\ IF look.how = "empty"
                THEN /\ dpc' = "semantic_wait"
                     /\ dLookups' = Append(dLookups,
                          [src |-> "semantic_scholar", id |-> SemanticIdOf(dId)])
                     /\ UNCHANGED <<dPaper, dResult, genCalls, dStatus>>
                ELSE /\ DetailsReturn(look.ret)
                     /\ UNCHANGED dLookups
    /\ UNCHANGED <<dOp, dId, genOutcome, dHealth>>
    /\ UNCHANGED otherThanAnalyze

\* the Semantic Scholar lookup is answered
SemanticDetailResponse ==
    /\ dpc = "semantic_wait"
    /\ \E resp \in SSDetailResponses : DetailsReturn(SemanticLookup(resp))
    /\ UNCHANGED <<dOp, dId, dLookups, dArxiv, genOutcome, dHealth>>
    /\ UNCHANGED otherThanAnalyze

\* ollama.generate returns or raises (ollama_service.py lines 68-83)
GenerationEnds ==
    /\ dpc = "generating"
    /\ dOp = "analyze"
    /\ \E ok \in BOOLEAN :
         LET step == AfterGeneration(ok, genCalls)
         IN  /\ genOutcome' = IF ok THEN "ok" ELSE "failed"
             /\ dpc' = step.pc
             /\ dResult' = step.result
             /\ genCalls' = IF step.again THEN genCalls + 1 ELSE genCalls
             /\ dStatus' = IF step.pc = "generating" THEN dStatus
                           ELSE StatusOf(analyze_paperRoute(step))
    /\ UNCHANGED <<dOp, dId, dLookups, dArxiv, dPaper, dHealth>>
    /\ UNCHANGED otherThanAnalyze

\* ollama_service.py line 15: the model every OllamaService is built with
OllamaModel == "llama3.2"

\* what the probe "Hi" can end with: a response, or an exception of
\* ollama.generate or of the executor, named by its message
ProbeOutcomes == {"ok", "connection refused", "model not found"}

\* a check_health whose probe is not inside a try
check_healthUnguarded(outcome) ==
    IF outcome = "ok"
    THEN [raised |-> FALSE,
          result |-> [status |-> "healthy", model |-> OllamaModel,
                      model_version |-> "3.2", error |-> "absent"]]
    ELSE [raised |-> TRUE, result |-> NoHealth]

\* ollama_service.py lines 147-170: the report of OllamaService.check_health
\* for the outcome of its probe; error is str(e)
check_health(outcome) ==
    IF outcome = "ok"
    THEN [raised |-> FALSE,
          result |-> [status |-> "healthy", model |-> OllamaModel,
                      model_version |-> "3.2", error |-> "absent"]]
    ELSE [raised |-> FALSE,
          result |-> [status |-> "unhealthy", model |-> OllamaModel,
                      model_version |-> "absent", error |-> outcome]]

\* research_service.py lines 365-367 and ollama_service.py lines 149-158:
\* ResearchService.check_ollama_health() is called and the probe submitted
check_ollama_health ==
    /\ dpc = "idle"
    /\ dOp' = "health"
    /\ dpc' = "generating"
    /\ genCalls' = 1
    /\ UNCHANGED <<dId, dLookups, dArxiv, dPaper, genOutcome, dResult, dHealth,
                   dStatus>>
    /\ UNCHANGED otherThanAnalyze

\* the probe ends; check_ollama_health returns what check_health returns
ProbeEnds ==
    /\ dpc = "generating"
    /\ dOp = "health"
    /\ \E outcome \in ProbeOutcomes :
         LET step == check_health(outcome)
         IN  /\ genOutcome' = IF outcome = "ok" THEN "ok" ELSE "failed"
             /\ dpc' = IF step.raised THEN "raised" ELSE "returned"
             /\ dHealth' = step.result
             /\ dStatus' = StatusOf(check_ollama_healthRoute(step))
    /\ UNCHANGED <<dOp, dId, dLookups, dArxiv, dPaper, genCalls, dResult>>
    /\ UNCHANGED otherThanAnalyze

NextAnalyze ==
    \/ CallDetails
    \/ CallAnalyze
    \/ ArxivDetailResponse
    \/ SemanticDetailResponse
    \/ GenerationEnds
    \/ check_ollama_health
    \/ ProbeEnds

SpecAnalyze == Init /\ [][NextAnalyze]_vars

----------------------------------------------------------------------------
(* The executor of OllamaService under concurrent requests                 *)

\* ThreadPoolExecutor(max_workers=2)
max_workers == 2

\* the calls of ollama.generate that are running on executor e
Running(e) == {r \in Requests : ppc[r] = "running" /\ pExec[r] = e}

\* an executor that turns work away while all its workers are busy
ExecutorSubmitRejecting(queue, busy, r) ==
    IF busy >= max_workers
    THEN [accepted |-> FALSE, queue |-> queue]
    ELSE [accepted |-> TRUE, queue |-> Append(queue, r)]

\* loop.run_in_executor(self._executor, ...): the work item joins the
\* executor's queue, whatever its workers are doing
ExecutorSubmit(queue, busy, r) ==
    [accepted |-> TRUE, queue |-> Append(queue, r)]

\* request r of kind `kind` reaches run_in_executor on executor e; the
\* requests are numbered in the order in which they get there
Submit(r, how, kind, e) ==
    LET sub == ExecutorSubmit(pQueue[e], Cardinality(Running(e)), r)
    IN  /\ ppc[r] = "idle"
        /\ \A q \in 1..(r - 1) : ppc[q] # "idle"
        /\ pVia' = [pVia EXCEPT ![r] = how]
        /\ pKind' = [pKind EXCEPT ![r] = kind]
        /\ pExec' = [pExec EXCEPT ![r] = e]
        /\ pAtCeiling' = [pAtCeiling EXCEPT ![r] = Cardinality(Running(e)) >= max_workers]
        /\ pQueue' = [pQueue EXCEPT ![e] = sub.queue]
        /\ ppc' = [ppc EXCEPT ![r] = IF sub.accepted THEN "queued" ELSE "rejected"]
        /\ UNCHANGED otherThanPool

\* POST /analyze/{paper_id} or GET /health/ollama: Depends(ResearchService)
\* constructs a ResearchService, and with it an OllamaService and an executor,
\* for this request
ApiRequest ==
    \E r \in Requests, kind \in {"analyze", "health"} :
        Submit(r, "api", kind, r) /\ pVia'[r] = "api"

\* analyze_paper or check_ollama_health is called on a ResearchService that
\* other callers use too
ServiceRequest ==
    \E r \in Requests, kind \in {"analyze", "health"} :
        Submit(r, "service", kind, 0) /\ pVia'[r] = "service"

\* a worker thread of executor e takes the oldest work item; there are at
\* most max_workers worker threads
WorkerStart(e) ==
    /\ pQueue[e] # <<>>
    /\ Cardinality(Running(e)) < max_workers
    /\ ppc' = [ppc EXCEPT ![Head(pQueue[e])] = "running"]
    /\ pQueue' = [pQueue EXCEPT ![e] = Tail(pQueue[e])]
    /\ UNCHANGED <<pVia, pKind, pExec, pAtCeiling>>
    /\ UNCHANGED otherThanPool

StartGeneration == \E e \in Executors : WorkerStart(e)

\* ollama.generate returns or raises in the worker thread, which sets the
\* result or the exception of the future
WorkerFinish(r) ==
    /\ ppc[r] = "running"
    /\ ppc' = [ppc EXCEPT ![r] = "finished"]
    /\ UNCHANGED <<pVia, pKind, pExec, pAtCeiling, pQueue>>
    /\ UNCHANGED otherThanPool

FinishGeneration == \E r \in Requests : WorkerFinish(r)

\* the awaiting coroutine resumes and the call returns to its caller: the
\* analysis or the health report, or the dict that reports the failure
Resume(r) ==
    /\ ppc[r] = "finished"
    /\ ppc' = [ppc EXCEPT ![r] = "returned"]
    /\ UNCHANGED <<pVia, pKind, pExec, pAtCeiling, pQueue>>
    /\ UNCHANGED otherThanPool

ReturnToCaller == \E r \in Requests : Resume(r)

NextPool ==
    \/ ApiRequest
    \/ ServiceRequest
    \/ StartGeneration
    \/ FinishGeneration
    \/ ReturnToCaller

SpecPool == Init /\ [][NextPool]_vars

\* worker threads take queued work, every generation ends, and the event
\* loop resumes the coroutine whose future is done
SpecPoolFair ==
    /\ SpecPool
    /\ \A e \in Executors : WF_vars(WorkerStart(e))
    /\ \A r \in Requests : WF_vars(WorkerFinish(r))
    /\ \A r \in Requests : WF_vars(Resume(r))

----------------------------------------------------------------------------
(* OllamaService._parse_analysis_response                                  *)

\* str.split(sep) for a one-character sep: the pieces between the separators
\* (the piece that starts at `start` is being scanned at position i)
RECURSIVE SplitOn(_, _, _, _)
SplitOn(s, sep, start, i) ==
    IF i > Len(s) THEN <<SubSeq(s, start, Len(s))>>
    ELSE IF s[i] = sep
         THEN <<SubSeq(s, start, i - 1)>> \o SplitOn(s, sep, i + 1, i + 1)
         ELSE SplitOn(s, sep, start, i + 1)

\* response.split('\n')
SplitLines(s) == SplitOn(s, "\n", 1, 1)

\* `sub in s`
Contains(s, sub) ==
    \E i \in 1..(Len(s) - Len(sub) + 1) : SubSeq(s, i, i + Len(sub) - 1) = sub

\* ' '.join(parts)
RECURSIVE JoinSpace(_)
JoinSpace(parts) ==
    IF parts = <<>> THEN <<>>
    ELSE IF Len(parts) = 1 THEN parts[1]
    ELSE parts[1] \o <<" ">> \o JoinSpace(Tail(parts))

W_summary == <<"s","u","m","m","a","r","y">>
W_key_findings == <<"k","e","y"," ","f","i","n","d","i","n","g","s">>
W_methodology == <<"m","e","t","h","o","d","o","l","o","g","y">>
W_applications == <<"a","p","p","l","i","c","a","t","i","o","n","s">>
W_future == <<"f","u","t","u","r","e">>
W_research == <<"r","e","s","e","a","r","c","h">>

\* a test that knows a header only by the keyword its line starts with
SectionOfLineStart(line) ==
    LET lower_line == Lower(Str(line)).s
        colon == Contains(line, <<":">>)
    IN  IF PyStartsWith(lower_line, W_summary) /\ colon THEN "summary"
        ELSE IF PyStartsWith(lower_line, W_key_findings) /\ colon THEN "key_findings"
        ELSE IF PyStartsWith(lower_line, W_methodology) /\ colon THEN "methodology"
        ELSE IF PyStartsWith(lower_line, W_applications) /\ colon THEN "applications"
        ELSE IF PyStartsWith(lower_line, W_future) /\ Contains(lower_line, W_research) /\ colon
             THEN "future_work"
        ELSE "none"

\* lines 107-122: the section a stripped, non-empty line opens; "none" when
\* the line is no header
SectionOf(line) ==
    LET lower_line == Lower(Str(line)).s
        colon == Contains(line, <<":">>)
    IN  IF Contains(lower_line, W_summary) /\ colon THEN "summary"
        ELSE IF Contains(lower_line, W_key_findings) /\ colon THEN "key_findings"
        ELSE IF Contains(lower_line, W_methodology) /\ colon THEN "methodology"
        ELSE IF Contains(lower_line, W_applications) /\ colon THEN "applications"
        ELSE IF Contains(lower_line, W_future) /\ Contains(lower_line, W_research) /\ colon
             THEN "future_work"
        ELSE "none"

\* a parser that takes every leading bullet off
RECURSIVE StripBulletRepeatedly(_)
StripBulletRepeatedly(line) ==
    IF PyStartsWith(line, <<"-", " ">>)
    THEN StripBulletRepeatedly(SubSeq(line, 3, Len(line)))
    ELSE line

\* lines 126-127: line[2:] when the line starts with '- '
StripBullet(line) ==
    IF PyStartsWith(line, <<"-", " ">>) THEN SubSeq(line, 3, Len(line)) ELSE line

\* lines 131-136: the value of a field whose content lines are `text`
FieldValue(section, text) ==
    IF section = "summary" THEN JoinSpace(text)
    ELSE IF section \in {"key_findings", "applications", "future_work"} THEN text
    ELSE JoinSpace(text)

\* a loop whose headers switch the section and keep the gathered lines
ParseLineKeepingText(st, raw) ==
    LET line == Strip(raw)
        header == SectionOf(line)
    IN  IF line = <<>> THEN st
        ELSE IF header # "none"
        THEN [st EXCEPT !.current_section = header]
        ELSE IF st.current_section = "none" THEN st
        ELSE LET text == Append(st.current_text, StripBullet(line))
             IN  [current_section |-> st.current_section,
                  current_text |-> text,
                  analysis |-> [st.analysis EXCEPT ![st.current_section] =
                                   FieldValue(st.current_section, text)]]

\* a loop that starts in the summary section instead of in no section
ParseLineDefaultSummary(st, raw) ==
    LET line == Strip(raw)
        header == SectionOf(line)
        section == IF st.current_section = "none" THEN "summary"
                   ELSE st.current_section
    IN  IF line = <<>> THEN st
        ELSE IF header # "none"
        THEN [st EXCEPT !.current_section = header, !.current_text = <<>>]
        ELSE LET text == Append(st.current_text, StripBullet(line))
             IN  [current_section |-> section,
                  current_text |-> text,
                  analysis |-> [st.analysis EXCEPT ![section] =
                                   FieldValue(section, text)]]

\* lines 101-136: one pass of the loop body, for the raw line `raw`
ParseLine(st, raw) ==
    LET line == Strip(raw)
        header == SectionOf(line)
    IN  IF line = <<>> THEN st
        ELSE IF header # "none"
        THEN [st EXCEPT !.current_section = header, !.current_text = <<>>]
        ELSE IF st.current_section = "none" THEN st
        ELSE LET text == Append(st.current_text, StripBullet(line))
             IN  [current_section |-> st.current_section,
                  current_text |-> text,
                  analysis |-> [st.analysis EXCEPT ![st.current_section] =
                                   FieldValue(st.current_section, text)]]

\* the lines a generated text is made of
L_summary == <<"S","u","m","m","a","r","y",":">>
L_great == <<"T","h","i","s"," ","p","a","p","e","r"," ","i","s"," ","g","r","e","a","t",".">>
L_key_findings == <<"K","e","y"," ","F","i","n","d","i","n","g","s",":">>
L_A == <<"-", " ", "A">>
L_B == <<"-", " ", "B">>
L_C == <<" ", "-", " ", "-", " ", "C", " ">>
LinePool == {L_summary, L_great, L_key_findings, L_A, L_B, L_C}

\* lines that hold a header keyword and a colon somewhere, and content lines
L_robotics ==
    <<"-"," ","A","p","p","l","i","c","a","t","i","o","n","s",":"," ",
      "r","o","b","o","t","i","c","s">>
L_our_methodology ==
    <<"O","u","r"," ","M","E","T","H","O","D","O","L","O","G","Y",":"," ","x">>
L_future_work == <<"F","u","t","u","r","e"," ","w","o","r","k",":"," ","y">>
HeaderLinePool == {L_summary, L_A, L_robotics, L_our_methodology, L_future_work}

\* the values of `response` that are no str
NotText == {None, [t |-> "int", s |-> <<>>]}

\* the text `response` with one more line
WithLine(text, n, raw) == IF n = 0 THEN raw ELSE text \o <<"\n">> \o raw

\* a parser without the try/except: the AttributeError leaves the function
SplitFailureUncaught(given) ==
    [raised |-> TRUE, result |-> NoParseResult]

\* line 101 with a response that is no str: split raises AttributeError, which
\* lines 140-145 turn into the dict {"error", "raw_response"} (the record's
\* `analysis` is no part of that dict)
SplitFailure(given) ==
    [raised |-> FALSE,
     result |-> [error |-> TRUE, analysis |-> EmptyAnalysis, raw_response |-> given]]

ParseNotText ==
    /\ rpc = "start"
    /\ \E given \in NotText :
         /\ rResponse' = given
         /\ rpc' = IF SplitFailure(given).raised THEN "raised" ELSE "returned"
         /\ rResult' = SplitFailure(given).result
    /\ UNCHANGED <<rLines, current_section, current_text, analysis>>
    /\ UNCHANGED otherThanParse

\* the loop goes through the line `raw`, the next one of the response
ReadLine(raw) ==
    LET text == WithLine(rResponse.s, Len(rLines), raw)
        lines == SplitLines(text)
        st == ParseLine([current_section |-> current_section,
                         current_text |-> current_text,
                         analysis |-> analysis], lines[Len(lines)])
    IN  /\ rpc \in {"start", "loop"}
        /\ Len(rLines) < MaxLines
        /\ rResponse' = Str(text)
        /\ rLines' = Append(rLines, raw)
        /\ current_section' = st.current_section
        /\ current_text' = st.current_text
        /\ analysis' = st.analysis
        /\ UNCHANGED rResult
        /\ UNCHANGED otherThanParse

\* the next line of a text made of the lines of LinePool
ParseNextLine ==
    \E raw \in LinePool : ReadLine(raw) /\ rpc' = "loop"

\* the next line of a text made of the lines of HeaderLinePool
ParseNextHeaderLine ==
    \E raw \in HeaderLinePool : ReadLine(raw) /\ rpc' = "loop"

\* line 138: the response has no more lines. A response that ends in a
\* newline has one more, empty, line for the loop to go through first
ParseReturns ==
    /\ rpc = "loop"
    /\ rpc' = "returned"
    /\ \E final_newline \in BOOLEAN :
         LET text == IF final_newline THEN rResponse.s \o <<"\n">> ELSE rResponse.s
             lines == SplitLines(text)
             cur == [current_section |-> current_section,
                     current_text |-> current_text,
                     analysis |-> analysis]
             st == IF final_newline THEN ParseLine(cur, lines[Len(lines)]) ELSE cur
         IN  /\ rResponse' = Str(text)
             /\ rLines' = IF final_newline THEN Append(rLines, lines[Len(lines)])
                                           ELSE rLines
             /\ current_section' = st.current_section
             /\ current_text' = st.current_text
             /\ analysis' = st.analysis
             /\ rResult' = [error |-> FALSE, analysis |-> st.analysis,
                            raw_response |-> None]
    /\ UNCHANGED otherThanParse

NextParse ==
    \/ ParseNotText
    \/ ParseNextLine
    \/ ParseReturns

SpecParse == Init /\ [][NextParse]_vars

NextParseHeaders ==
    \/ ParseNotText
    \/ ParseNextHeaderLine
    \/ ParseReturns

SpecParseHeaders == Init /\ [][NextParseHeaders]_vars

----------------------------------------------------------------------------
(* DatabaseService (services/db_service.py) over the analyzed_papers table *)
(* of models/models.py, on PostgreSQL (models/database.py).  A store call  *)
(* is seen by other sessions through two statements, the INSERT that       *)
(* commit() flushes and the COMMIT; everything else of it is local.        *)

SID_x == Str(<<"x">>)
SID_y == Str(<<"y">>)
Title_T == Str(<<"T">>)
Empty == Str(<<>>)

\* the records given to store_paper_analysis: two payloads for one
\* source_id, another source_id, and records without or with an empty
\* source_id or title
StoreRecords ==
    {Record(SID_x, Title_T, "arXiv", 1),
     Record(SID_x, Title_T, "arXiv", 2),
     Record(SID_y, Title_T, "Semantic Scholar", 1),
     Record(None, Title_T, "arXiv", 1),
     Record(SID_x, None, "arXiv", 2),
     Record(Empty, Empty, "arXiv", 1)}

\* the source_id values given to get_paper_analysis
LookupIds == {SID_x, SID_y, None}

\* models.py lines 86-108
to_dict(row) == [t |-> "dict", row |-> row]

\* an analyzed_papers table whose source_id column is not unique
ExecuteInsertNoUnique(rec, committed, pending) ==
    IF rec.source_id = None \/ rec.title = None THEN "notnull" ELSE "ok"

\* models.py lines 65-66 on PostgreSQL: what the INSERT of a record does.
\* nullable=False is checked first; unique=True fails against a committed
\* row and waits for the end of another transaction that has inserted the
\* same source_id.
ExecuteInsert(rec, committed, pending) ==
    IF rec.source_id = None \/ rec.title = None THEN "notnull"
    ELSE IF \E r \in committed : r.source_id = rec.source_id THEN "unique"
    ELSE IF \E r \in pending : r.source_id = rec.source_id THEN "wait"
    ELSE "ok"

\* a lookup that reads a snapshot older than the other session's commit
get_paper_analysisStale(rows, source_id, ok) == {NoRow}

\* db_service.py lines 58-65: filter_by(source_id=...).first(), None when
\* nothing matches or when the query fails.  The set holds what the call
\* can return (NoRow for None).
get_paper_analysis(rows, source_id, ok) ==
    LET matches == {r \in rows : source_id # None /\ r.source_id = source_id}
    IN  IF ~ok \/ matches = {} THEN {NoRow} ELSE matches

\* the orders in which ORDER BY created_at DESC can give the rows
OrderedByCreatedDesc(rows) ==
    {seq \in [1..Cardinality(rows) -> rows] :
        /\ \A i, j \in 1..Cardinality(rows) : i # j => seq[i] # seq[j]
        /\ \A i, j \in 1..Cardinality(rows) :
              i < j => seq[i].created_at >= seq[j].created_at}

\* a listing ordered by created_at ascending
get_recent_analysesOldestFirst(rows, n, ok) ==
    IF ~ok THEN {<<>>}
    ELSE {Take(seq, n) :
            seq \in {q \in [1..Cardinality(rows) -> rows] :
                       /\ \A i, j \in 1..Cardinality(rows) : i # j => q[i] # q[j]
                       /\ \A i, j \in 1..Cardinality(rows) :
                             i < j => q[i].created_at <= q[j].created_at}}

\* db_service.py lines 67-77: order_by(created_at.desc()).limit(n).all(),
\* [] when the query fails
get_recent_analyses(rows, n, ok) ==
    IF ~ok THEN {<<>>} ELSE {Take(seq, n) : seq \in OrderedByCreatedDesc(rows)}

\* db_service.py lines 79-101
get_paper_stats(rows, ok) ==
    IF ~ok
    THEN [total_papers |-> 0, arxiv_papers |-> 0, semantic_scholar_papers |-> 0]
    ELSE [total_papers |-> Cardinality(rows),
          arxiv_papers |-> Cardinality({r \in rows : r.source = "arXiv"}),
          semantic_scholar_papers |->
              Cardinality({r \in rows : r.source = "Semantic Scholar"})]

\* a query that deletes the rows it did not return
AfterQueryPruning(rows, returned) ==
    {r \in rows : \E i \in 1..Len(returned) : returned[i] = r}

\* db_service.py lines 58-101: the three read methods only run SELECTs;
\* nothing is added to the session and nothing committed
AfterQuery(rows, returned) == rows

InCall(s) == spc[s] \in {"added", "inserted", "conflict"}

\* db_service.py lines 18-40: store_paper_analysis is called on session s,
\* builds the AnalyzedPaper and adds it to the session (autoflush is off:
\* no statement yet)
StoreCall(s) ==
    /\ spc[s] \in {"idle", "returned"}
    /\ \A o \in 1..(s - 1) : spc[o] # "idle"
    /\ dbStores < MaxStores
    /\ dbStores' = dbStores + 1
    /\ \E rec \in StoreRecords : sRec' = [sRec EXCEPT ![s] = rec]
    /\ spc' = [spc EXCEPT ![s] = "added"]
    /\ sRow' = [sRow EXCEPT ![s] = NoRow]
    /\ sRet' = [sRet EXCEPT ![s] = NoReturn]
    /\ sErr' = [sErr EXCEPT ![s] = "none"]
    /\ sFail' = [sFail EXCEPT ![s] = FALSE]
    /\ sAdded' = [sAdded EXCEPT ![s] = FALSE]
    /\ sOverlap' = \E o \in Sessions \ {s} : InCall(o)
    /\ qLast' = NoQuery
    /\ UNCHANGED <<dbRows, dbNextId, dbClock>>
    /\ UNCHANGED otherThanStore

\* line 41, first half: commit() flushes the session and the INSERT runs.
\* It violates a constraint (IntegrityError, line 46) or writes the row
\* with the next id and the server's time as created_at.
Flush(s) ==
    /\ spc[s] = "added"
    /\ LET pending == {sRow[o] : o \in {x \in Sessions \ {s} : spc[x] = "inserted"}}
           outcome == ExecuteInsert(sRec[s], dbRows, pending)
       IN  /\ outcome # "wait"
           /\ dbNextId' = dbNextId + 1
           /\ \E tick \in {0, 1} : dbClock' = dbClock + tick
           /\ IF outcome = "ok"
              THEN /\ sRow' = [sRow EXCEPT ![s] =
                          Row(dbNextId, sRec[s].source_id, sRec[s].title,
                              sRec[s].source, sRec[s].summary, dbClock')]
                   /\ spc' = [spc EXCEPT ![s] = "inserted"]
                   /\ UNCHANGED sErr
              ELSE /\ spc' = [spc EXCEPT ![s] = "conflict"]
                   /\ sErr' = [sErr EXCEPT ![s] = outcome]
                   /\ UNCHANGED sRow
    /\ qLast' = NoQuery
    /\ UNCHANGED <<dbRows, dbStores, sRec, sRet, sFail, sAdded, sOverlap>>
    /\ UNCHANGED otherThanStore

\* lines 41-44 and 53-56: what the call returns after the COMMIT was tried:
\* the row as a dict, or None when the transaction could not be committed
\* (a storage error other than a constraint violation) or when the reload
\* of the expired row in to_dict() failed
AfterCommit(how, row) ==
    IF how = "ok" THEN to_dict(row) ELSE NoneReturn

\* line 41, second half, to line 44: the COMMIT and the return
Commit(s) ==
    /\ spc[s] = "inserted"
    /\ \E how \in {"ok", "commit_failed", "reload_failed"} :
         /\ sRet' = [sRet EXCEPT ![s] = AfterCommit(how, sRow[s])]
         /\ IF how = "commit_failed"
            THEN /\ sErr' = [sErr EXCEPT ![s] = "storage"]
                 /\ sRow' = [sRow EXCEPT ![s] = NoRow]
                 /\ UNCHANGED <<dbRows, sFail, sAdded>>
            ELSE /\ dbRows' = dbRows \cup {sRow[s]}
                 /\ sAdded' = [sAdded EXCEPT ![s] = TRUE]
                 /\ sFail' = [sFail EXCEPT ![s] = (how = "reload_failed")]
                 /\ UNCHANGED <<sErr, sRow>>
    /\ spc' = [spc EXCEPT ![s] = "returned"]
    /\ qLast' = NoQuery
    /\ UNCHANGED <<dbNextId, dbClock, dbStores, sRec, sOverlap>>
    /\ UNCHANGED otherThanStore

\* lines 46-51: the IntegrityError is caught, the transaction rolled back
\* and the row of the record's source_id looked up and returned, None when
\* there is none
IntegrityErrorCaught(s) ==
    /\ spc[s] = "conflict"
    /\ \E ok \in BOOLEAN :
         \E existing \in get_paper_analysis(dbRows, sRec[s].source_id, ok) :
            /\ sRet' = [sRet EXCEPT ![s] =
                          IF existing = NoRow THEN NoneReturn ELSE to_dict(existing)]
            /\ sFail' = [sFail EXCEPT ![s] = ~ok]
    /\ spc' = [spc EXCEPT ![s] = "returned"]
    /\ qLast' = NoQuery
    /\ UNCHANGED <<dbRows, dbNextId, dbClock, dbStores, sRec, sRow, sErr, sAdded, sOverlap>>
    /\ UNCHANGED otherThanStore

\* a read method has returned `list` (and `stats`).  Its SELECTs see the
\* committed rows only, whatever other sessions have under way, so the
\* reads are taken between the store calls.
Query(op, source_id, n, ok, list, stats) ==
    /\ \A s \in Sessions : ~InCall(s)
    /\ qLast' = [op |-> op, source_id |-> source_id, limit |-> n, failed |-> ~ok,
                 list |-> list, stats |-> stats]
    /\ dbRows' = AfterQuery(dbRows, list)
    /\ UNCHANGED <<dbNextId, dbClock, dbStores, spc, sRec, sRow, sRet, sErr, sFail,
                   sAdded, sOverlap>>
    /\ UNCHANGED otherThanStore

GetPaperAnalysis ==
    \E source_id \in LookupIds, ok \in BOOLEAN :
        \E r \in get_paper_analysis(dbRows, source_id, ok) :
            Query("get_paper_analysis", source_id, 0, ok,
                  IF r = NoRow THEN <<>> ELSE <<r>>, NoQuery.stats)

GetRecentAnalyses ==
    \E n \in 0..MaxRecent, ok \in BOOLEAN :
        \E list \in get_recent_analyses(dbRows, n, ok) :
            Query("get_recent_analyses", None, n, ok, list, NoQuery.stats)

GetPaperStats ==
    \E ok \in BOOLEAN :
        Query("get_paper_stats", None, 0, ok, <<>>, get_paper_stats(dbRows, ok))

NextStore ==
    \/ \E s \in Sessions : StoreCall(s)
    \/ \E s \in Sessions : Flush(s)
    \/ \E s \in Sessions : Commit(s)
    \/ \E s \in Sessions : IntegrityErrorCaught(s)
    \/ GetPaperAnalysis
    \/ GetRecentAnalyses
    \/ GetPaperStats

SpecStore == Init /\ [][NextStore]_vars

----------------------------------------------------------------------------
(* Properties of _merge_results (checked under SpecMerge) *)

\* two strings equal ignoring case
EqualIgnoringCase(s, t) ==
    /\ Len(s) = Len(t)
    /\ \A i \in 1..Len(s) : LowerChar(s[i]) = LowerChar(t[i])

\* a title that is a non-empty string
HasTitle(paper) == paper.title.t = "str" /\ paper.title.s # <<>>

\* the strict interleave A[0], B[0], A[1], B[1], ... and then the tail of
\* the longer list
RECURSIVE Interleave(_, _)
Interleave(A, B) ==
    IF A = <<>> THEN B
    ELSE IF B = <<>> THEN A
    ELSE <<Head(A), Head(B)>> \o Interleave(Tail(A), Tail(B))

AllTitledAndDistinct(xs) ==
    /\ \A i \in 1..Len(xs) : HasTitle(xs[i])
    /\ \A i, j \in 1..Len(xs) :
        i # j => ~EqualIgnoringCase(xs[i].title.s, xs[j].title.s)

Occurs(x, xs) == \E i \in 1..Len(xs) : xs[i] = x

\* C2: for inputs whose titles are all non-empty and pairwise distinct
\* ignoring case, _merge_results(A, B) is the strict interleave A[0], B[0],
\* A[1], B[1], ... followed by the tail of the longer list.
C2_MergeIsInterleave ==
    (mpc = "returned" /\ AllTitledAndDistinct(mA \o mB))
        => mOut = Interleave(mA, mB)

\* A = [a0, a1], B = [b0, b1] with four distinct titles gives [a0, b0, a1, b1]
C2_Witness ==
    /\ mpc = "returned"
    /\ Len(mA) = 2
    /\ Len(mB) = 2
    /\ AllTitledAndDistinct(mA \o mB)
    /\ mOut = <<mA[1], mB[1], mA[2], mB[2]>>

\* C3: when two input records have (non-empty) titles equal ignoring case,
\* _merge_results emits the one that comes first in interleave order and
\* drops every later one.
C3_FirstOfEqualTitlesKept ==
    mpc = "returned" =>
        LET all == Interleave(mA, mB)
        IN  \A k \in 1..Len(all) :
              (/\ HasTitle(all[k])
               /\ \E j \in 1..Len(all) :
                    /\ j # k
                    /\ HasTitle(all[j])
                    /\ EqualIgnoringCase(all[j].title.s, all[k].title.s))
              => (Occurs(all[k], mOut)
                    <=> ~\E j \in 1..(k - 1) :
                          /\ HasTitle(all[j])
                          /\ EqualIgnoringCase(all[j].title.s, all[k].title.s))

\* the records with a title, each kept only at its first occurrence ignoring case
RECURSIVE FirstOccurrences(_, _)
FirstOccurrences(xs, kept) ==
    IF xs = <<>> THEN kept
    ELSE IF /\ HasTitle(Head(xs))
            /\ \A i \in 1..Len(kept) :
                 ~EqualIgnoringCase(kept[i].title.s, Head(xs).title.s)
         THEN FirstOccurrences(Tail(xs), Append(kept, Head(xs)))
         ELSE FirstOccurrences(Tail(xs), kept)

\* C5: a record whose title is empty or missing (absent key, empty string or
\* null) is never emitted by _merge_results, and the other records are
\* emitted exactly as if it were skipped in place: the output is the
\* interleave order of the titled records, each at its first occurrence.
C5_UntitledRecordsAreSkipped ==
    mpc = "returned" =>
        /\ \A i \in 1..Len(mOut) : HasTitle(mOut[i])
        /\ mOut = FirstOccurrences(Interleave(mA, mB), <<>>)

\* every title is a string, empty or not
StringTitles(xs) == \A i \in 1..Len(xs) : xs[i].title.t = "str"

\* where the record x stands in xs (0: nowhere)
IndexIn(x, xs) ==
    IF Occurs(x, xs) THEN CHOOSE i \in 1..Len(xs) : xs[i] = x ELSE 0

\* the records of the output that stand in xs keep the order they have in xs
KeepsOrderOf(xs, out) ==
    \A i, j \in 1..Len(out) :
        (i < j /\ Occurs(out[i], xs) /\ Occurs(out[j], xs)) =>
            IndexIn(out[i], xs) < IndexIn(out[j], xs)

\* C33: for input lists whose titles are all strings, the output of
\* _merge_results has exactly one record for every non-empty title of the
\* inputs, titles compared in lower case, and no other record; every
\* output record is a record of one of the inputs; the records taken from
\* one source keep that source's order; and merging a list with the empty
\* list gives the list with every title kept at its first occurrence.
C33_OneRecordPerTitleInSourceOrder ==
    (mpc = "returned" /\ StringTitles(mA \o mB)) =>
        LET all == mA \o mB
        IN  /\ \A k \in 1..Len(all) :
                  HasTitle(all[k]) =>
                      Cardinality({i \in 1..Len(mOut) :
                                     /\ HasTitle(mOut[i])
                                     /\ EqualIgnoringCase(mOut[i].title.s,
                                                          all[k].title.s)}) = 1
            /\ \A i \in 1..Len(mOut) : HasTitle(mOut[i]) /\ Occurs(mOut[i], all)
            /\ KeepsOrderOf(mA, mOut)
            /\ KeepsOrderOf(mB, mOut)
            /\ mB = <<>> => mOut = FirstOccurrences(mA, <<>>)
            /\ mA = <<>> => mOut = FirstOccurrences(mB, <<>>)

\* ["Xy", "p"] merged with ["xY", "q"] gives the records of "Xy", "p", "q"
C33_Witness ==
    /\ mpc = "returned"
    /\ Len(mA) = 2
    /\ Len(mB) = 2
    /\ mA[1].title = Str(<<"X", "y">>)
    /\ mB[1].title = Str(<<"x", "Y">>)
    /\ mA[2].title = Str(<<"p">>)
    /\ mB[2].title = Str(<<"q">>)
    /\ mOut = <<mA[1], mA[2], mB[2]>>

----------------------------------------------------------------------------
(* Properties of search_papers (checked under Spec) *)

Returned == pc = "done"

\* the list an awaitable contributed: an adapter's return value
Contribution(i) == IF tasks[i].kind = "sleep" THEN <<>> ELSE tasks[i].ret.v

Failed(i) == tasks[i].outcome \in {"transport", "status", "payload"}

CallsTo(kind) == {k \in 1..Len(calls) : calls[k].src = kind}

\* C1: search_papers returns at most `limit` records, each with a non-empty
\* title and a non-empty source_id, and no two of them have titles equal
\* ignoring case.
C1_ResultsBoundedTitledDistinct ==
    Returned =>
        LET rs == response.results
        IN  /\ Len(rs) <= limit
            /\ \A i \in 1..Len(rs) : HasTitle(rs[i]) /\ rs[i].source_id # <<>>
            /\ \A i, j \in 1..Len(rs) :
                 i # j => ~EqualIgnoringCase(rs[i].title.s, rs[j].title.s)

\* a full page was returned although the adapters delivered more records,
\* one of them a duplicate of another ignoring case
C1_Witness ==
    /\ Returned
    /\ Len(response.results) = limit
    /\ Len(combined) > limit
    /\ \E i \in 1..Len(Contribution(1)), j \in 1..Len(Contribution(2)) :
         /\ HasTitle(Contribution(1)[i])
         /\ HasTitle(Contribution(2)[j])
         /\ EqualIgnoringCase(Contribution(1)[i].title.s, Contribution(2)[j].title.s)

\* C4: the merge starts only after every awaitable handed to gather has
\* finished, and the returned list is determined by the two adapters' lists
\* alone (Semantic Scholar's first, arXiv's second), whichever finished first.
C4_ResultIndependentOfCompletionOrder ==
    Returned =>
        /\ \A i \in 1..2 : tasks[i].st = "done"
        /\ response.results
             = Take(_merge_results(Contribution(1), Contribution(2)), limit)

\* arXiv finished before Semantic Scholar and both delivered records
C4_Witness ==
    /\ Returned
    /\ order = <<2, 1>>
    /\ Contribution(1) # <<>>
    /\ Contribution(2) # <<>>
    /\ Len(response.results) >= 2
    /\ response.results[1].source = "Semantic Scholar"

\* C6: for every page the results are exactly positions 0..limit-1 of the
\* merged sequence: the page offset is not applied again to the merged list.
C6_ResultsAreFirstLimitOfMerged ==
    Returned =>
        /\ Len(response.results) = Min(limit, Len(combined))
        /\ \A i \in 1..Len(response.results) : response.results[i] = combined[i]

\* page 2, and the merged sequence is longer than the page
C6_Witness ==
    /\ Returned
    /\ page = 2
    /\ Len(combined) > limit
    /\ response.results # <<>>
    /\ response.results[1] = combined[1]

\* C7: every enabled source gets exactly one adapter call, with
\* limit = 2 * limit and offset = (page - 1) * limit, the same for both.
C7_OneCallPerEnabledSource ==
    pc # "idle" =>
        /\ \A n \in {S_semantic_scholar, S_arxiv} :
             In(n, sources) =>
                LET kind == IF n = S_arxiv THEN "arxiv" ELSE "semantic_scholar"
                IN  Cardinality(CallsTo(kind)) = 1
        /\ \A k \in 1..Len(calls) :
             /\ calls[k].limit = 2 * limit
             /\ calls[k].offset = (page - 1) * limit

\* page 2 of size 2 with both sources: two calls, each limit 4 and offset 2
C7_Witness ==
    /\ pc = "gather"
    /\ page = 2
    /\ limit = 2
    /\ Len(calls) = 2
    /\ calls[1] = [src |-> "semantic_scholar", limit |-> 4, offset |-> 2]
    /\ calls[2] = [src |-> "arxiv", limit |-> 4, offset |-> 2]

\* C8: a source that is not in the requested set is never invoked and
\* contributes nothing: every returned record comes from an enabled source.
C8_DisabledSourceNotInvoked ==
    pc # "idle" =>
        /\ ~In(S_semantic_scholar, sources) =>
             /\ CallsTo("semantic_scholar") = {}
             /\ tasks[1].kind = "sleep"
             /\ \A i \in 1..Len(response.results) :
                  response.results[i].source # "Semantic Scholar"
        /\ ~In(S_arxiv, sources) =>
             /\ CallsTo("arxiv") = {}
             /\ tasks[2].kind = "sleep"
             /\ \A i \in 1..Len(response.results) :
                  response.results[i].source # "arXiv"

\* sources = ["arxiv"]: a result came back and Semantic Scholar was not called
C8_Witness ==
    /\ Returned
    /\ sources = <<S_arxiv>>
    /\ calls = <<[src |-> "arxiv", limit |-> 2 * limit, offset |-> (page - 1) * limit]>>
    /\ response.results # <<>>

\* C9: with the source set unspecified (None or empty, or no `sources`
\* query parameter or an empty one) both adapters are invoked.
C9_UnspecifiedSourcesQueryAll ==
    (/\ pc # "idle"
     /\ \/ sourcesArg.t = "none"
        \/ sourcesArg.v = <<>>
        \/ (via = "api" /\ apiSources \in {Absent, Str(<<>>)}))
    => /\ CallsTo("semantic_scholar") # {}
       /\ CallsTo("arxiv") # {}
       /\ tasks[1].kind = "semantic_scholar"
       /\ tasks[2].kind = "arxiv"

\* a direct call with sources = None returned records of both sources
C9_Witness ==
    /\ Returned
    /\ via = "service"
    /\ sourcesArg = NoneResult
    /\ \E i, j \in 1..Len(response.results) :
         /\ response.results[i].source = "Semantic Scholar"
         /\ response.results[j].source = "arXiv"

\* C10: when an adapter fails (transport error, status other than 200,
\* unparseable payload) search_papers does not raise; the failed adapter
\* contributes the empty list, so the records are the merge of the other
\* adapter's list with the empty list, and nothing when both fail.
C10_FailedAdapterDegradesToEmpty ==
    /\ pc # "raised"
    /\ \A i \in 1..2 :
         (tasks # <<>> /\ Failed(i)) => tasks[i].ret = List(<<>>)
    /\ Returned =>
         /\ (Failed(1) /\ ~Failed(2)) =>
               response.results = Take(_merge_results(<<>>, Contribution(2)), limit)
         /\ (Failed(2) /\ ~Failed(1)) =>
               response.results = Take(_merge_results(Contribution(1), <<>>), limit)
         /\ (Failed(1) /\ Failed(2)) => response.results = <<>>
         /\ response.page = page
         /\ response.limit = limit
         /\ response.sources = sources

\* Semantic Scholar's request failed in transport, arXiv's records came back
C10_Witness ==
    /\ Returned
    /\ tasks[1].outcome = "transport"
    /\ tasks[2].outcome = "ok"
    /\ response.results # <<>>
    /\ \A i \in 1..Len(response.results) : response.results[i].source = "arXiv"

----------------------------------------------------------------------------
(* The records of a page (checked under SpecPage)                          *)

\* the records of the two sources at native position n, in the common format
SemanticScholarAt(n) ==
    Paper(Str(<<"s">> \o Name(n)), "Semantic Scholar",
          <<"s","e","m","a","n","t","i","c","_","s","c","h","o","l","a","r","_">> \o Name(n))
ArxivAt(n) ==
    Paper(Str(<<"a">> \o Name(n)), "arXiv", <<"a","r","x","i","v","_">> \o Name(n))

\* both sources were asked and each answered with 2 * limit records, all
\* of different titles
FullWindowsOfDistinctTitles ==
    /\ In(S_semantic_scholar, sources)
    /\ In(S_arxiv, sources)
    /\ Len(tasks[1].ret.v) = 2 * limit
    /\ Len(tasks[2].ret.v) = 2 * limit
    /\ AllTitledAndDistinct(tasks[1].ret.v \o tasks[2].ret.v)

\* C32: with both sources enabled, all titles distinct and a full window of
\* 2 * limit records from each source, page p is the Semantic Scholar
\* records at native positions (p-1)*limit .. (p-1)*limit + ceil(limit/2) - 1
\* interleaved with the arXiv records at native positions
\* (p-1)*limit .. (p-1)*limit + floor(limit/2) - 1, and nothing else.
C32_PageHoldsTheHeadsOfBothWindows ==
    (pc = "done" /\ FullWindowsOfDistinctTitles) =>
        response.results =
            Interleave([i \in 1..((limit + 1) \div 2) |->
                           SemanticScholarAt((page - 1) * limit + i - 1)],
                       [i \in 1..(limit \div 2) |->
                           ArxivAt((page - 1) * limit + i - 1)])

\* page 2 with limit 2 is the records at native position 2 of both sources
C32_Witness ==
    /\ pc = "done"
    /\ FullWindowsOfDistinctTitles
    /\ page = 2
    /\ limit = 2
    /\ response.results = <<SemanticScholarAt(2), ArxivAt(2)>>

----------------------------------------------------------------------------
(* Properties of the source adapters (checked under SpecAdapter) *)

\* the characters of s after its first n
Drop(s, n) == SubSeq(s, n + 1, Len(s))

StartsWith(s, prefix) ==
    Len(s) >= Len(prefix) /\ SubSeq(s, 1, Len(prefix)) = prefix

\* the native id of a Semantic Scholar record as the response gave it
NativeIdChars(raw) ==
    IF raw.paperId.t = "str" THEN raw.paperId.s ELSE <<"N", "o", "n", "e">>

\* id is <something>/<n> (or just <n>) and n holds no slash
IsLastSegmentOf(n, id) ==
    /\ \A k \in 1..Len(n) : n[k] # "/"
    /\ \/ id = n
       \/ /\ Len(id) > Len(n)
          /\ Drop(id, Len(id) - Len(n)) = n
          /\ id[Len(id) - Len(n)] = "/"

\* C11: each adapter never raises: on a transport error, a status other
\* than 200 or a body that does not parse it returns the empty list, and
\* every record it returns carries source_id = <source>_<native id>.
C11_AdaptersNeverRaise ==
    apc = "returned" =>
        /\ aRet.t = "list"
        /\ Outcome(aResp) # "ok" => aRet.v = <<>>
        /\ (aCall.src = "semantic_scholar" /\ Outcome(aResp) = "ok") =>
              /\ Len(aRet.v) = Len(aResp.data)
              /\ \A i \in 1..Len(aRet.v) :
                   aRet.v[i].source_id
                     = S_semantic_scholar \o <<"_">> \o NativeIdChars(aResp.data[i])
        /\ (aCall.src = "arxiv" /\ Outcome(aResp) = "ok") =>
              \A i \in 1..Len(aRet.v) :
                 /\ StartsWith(aRet.v[i].source_id, S_arxiv \o <<"_">>)
                 /\ \E k \in 1..Len(aResp.entries) :
                      IsLastSegmentOf(Drop(aRet.v[i].source_id, Len(S_arxiv) + 1),
                                      aResp.entries[k].id)

\* the arXiv request failed in transport and the adapter returned []
C11_Witness ==
    /\ apc = "returned"
    /\ aCall.src = "arxiv"
    /\ Outcome(aResp) = "transport"
    /\ aRet = List(<<>>)

----------------------------------------------------------------------------
(* More properties of search_papers (checked under Spec) *)

\* C12: `total` is merged_count * (page + 1), where merged_count is the
\* length of the de-duplicated merged sequence before it is cut to `limit`.
C12_TotalIsMergedCountTimesPagePlusOne ==
    Returned =>
        response.total
          = Len(_merge_results(Contribution(1), Contribution(2))) * (page + 1)

\* page 2, three merged records cut to a page of two: total = 3 * 3
C12_Witness ==
    /\ Returned
    /\ page = 2
    /\ limit = 2
    /\ Len(combined) = 3
    /\ Len(response.results) = 2
    /\ response.total = 9

\* the names of the sources whose adapter was invoked
InvokedSources ==
    {n \in {S_semantic_scholar, S_arxiv} :
        CallsTo(IF n = S_arxiv THEN "arxiv" ELSE "semantic_scholar") # {}}

\* C13: the `sources` field of the result is exactly the set of sources
\* whose adapter was invoked, also when the requested list holds names
\* that are no known source.
C13_SourcesFieldIsInvokedSources ==
    Returned =>
        {response.sources[i] : i \in 1..Len(response.sources)} = InvokedSources

----------------------------------------------------------------------------
(* Properties of get_paper_details and analyze_paper (checked under        *)
(* SpecAnalyze)                                                            *)

ArxivPrefixed(id) ==
    \/ StartsWith(id, <<"a", "r", "x", "i", "v", ":">>)
    \/ StartsWith(id, <<"a", "r", "X", "i", "v", ":">>)

LookupSources == {dLookups[i].src : i \in 1..Len(dLookups)}

DetailsDone == dpc \in {"generating", "returned", "raised"}

\* C14 as stated: an id with the prefix "arxiv:" or "arXiv:" is looked up
\* in arXiv only and never sent to Semantic Scholar, even when arXiv finds
\* nothing; an id without the prefix is looked up in Semantic Scholar only.
C14_PrefixedIdNeverSentToSemanticScholar ==
    dOp \in {"details", "analyze"} =>
        IF ArxivPrefixed(dId)
        THEN LookupSources = {"arxiv"}
        ELSE LookupSources = {"semantic_scholar"}

\* C14, amended: an id with the prefix "arxiv:" or "arXiv:" is looked up
\* in arXiv first, under the part after the colon. It is sent to Semantic
\* Scholar, under the whole prefixed id, exactly when the arXiv lookup was
\* answered without a record (a status other than 200, or no entry that
\* parses); when arXiv gave a record, or its request raised, no second
\* lookup is made. An id without the prefix is looked up in Semantic
\* Scholar only, with a leading "semantic_scholar_" taken off.
C14_ArxivFirstThenSemanticScholar ==
    dOp \in {"details", "analyze"} =>
        IF ArxivPrefixed(dId)
        THEN /\ dLookups[1] = [src |-> "arxiv", id |-> Drop(dId, 6)]
             /\ dArxiv = "empty" <=>
                  dLookups = <<dLookups[1],
                               [src |-> "semantic_scholar", id |-> dId]>>
             /\ dArxiv # "empty" => Len(dLookups) = 1
             /\ DetailsDone => dArxiv # "none"
        ELSE /\ dArxiv = "none"
             /\ dLookups =
                  <<[src |-> "semantic_scholar",
                     id |-> IF StartsWith(dId, S_semantic_scholar_)
                            THEN Drop(dId, Len(S_semantic_scholar_))
                            ELSE dId]>>

\* "arXiv:7" is not found in arXiv and then found in Semantic Scholar
C14_Witness ==
    /\ dpc = "returned"
    /\ dOp = "details"
    /\ dId = <<"a", "r", "X", "i", "v", ":", "7">>
    /\ dArxiv = "empty"
    /\ Len(dLookups) = 2
    /\ dLookups[2].src = "semantic_scholar"
    /\ dResult = "paper"

\* C15: analyze_paper raises ValueError when get_paper_details resolves
\* nothing, and the generation backend is never invoked in that case.
C15_UnresolvedPaperRaisesValueError ==
    (dOp = "analyze" /\ DetailsDone /\ ~dPaper.found) =>
        /\ dpc = "raised"
        /\ dResult = "ValueError"
        /\ genCalls = 0
        /\ genOutcome = "none"

\* neither arXiv nor Semantic Scholar has the paper
C15_Witness ==
    /\ dOp = "analyze"
    /\ dpc = "raised"
    /\ dResult = "ValueError"
    /\ Len(dLookups) = 2
    /\ genCalls = 0

\* C16: when the paper resolves but the generation backend raises or is
\* unreachable, analyze_paper propagates the failure to its caller as an
\* error and does not return a normal result.
C16_GenerationFailurePropagates ==
    (dOp = "analyze" /\ dPaper.found /\ genOutcome = "failed") =>
        dpc \in {"generating", "raised"}

C28_HealthProbeAlwaysReports ==
    dOp = "health" =>
        /\ dpc # "raised"
        /\ (dpc = "returned" /\ genOutcome = "failed") =>
              /\ dHealth.status = "unhealthy"
              /\ dHealth.model = OllamaModel
              /\ dHealth.error \in ProbeOutcomes \ {"ok"}
        /\ (dpc = "returned" /\ genOutcome = "ok") =>
              /\ dHealth.status = "healthy"
              /\ dHealth.model = OllamaModel
              /\ dHealth.error = "absent"
        /\ dpc = "returned" => genOutcome \in {"ok", "failed"}

\* a probe that failed has been reported
C28_Witness ==
    /\ dOp = "health"
    /\ dpc = "returned"
    /\ genOutcome = "failed"
    /\ dHealth.status = "unhealthy"
    /\ dHealth.error = "connection refused"

\* C34: a source_id that search_papers gives is looked up in the source
\* that produced the record, under the native id: "semantic_scholar_<id>"
\* in Semantic Scholar under <id>, "arxiv_<id>" in arXiv under <id>, by
\* get_paper_details and by analyze_paper alike.
C34_SourceIdIsLookedUpInItsSource ==
    dOp \in {"details", "analyze"} =>
        /\ StartsWith(dId, S_semantic_scholar_) =>
              dLookups[1] = [src |-> "semantic_scholar",
                             id |-> Drop(dId, Len(S_semantic_scholar_))]
        /\ StartsWith(dId, S_arxiv \o <<"_">>) =>
              dLookups[1] = [src |-> "arxiv", id |-> Drop(dId, Len(S_arxiv) + 1)]

\* C34, the Semantic Scholar half alone: "semantic_scholar_<id>" is looked
\* up in Semantic Scholar under <id> and nowhere else.
C34_SemanticScholarIdIsLookedUpThere ==
    (dOp \in {"details", "analyze"} /\ StartsWith(dId, S_semantic_scholar_)) =>
        dLookups = <<[src |-> "semantic_scholar",
                      id |-> Drop(dId, Len(S_semantic_scholar_))]>>

\* C35: a call that finds no paper is answered with status 404, by
\* GET /paper/{paper_id} and by POST /analyze/{paper_id}, and never with 500.
C35_NotFoundIsAnswered404 ==
    (dOp \in {"details", "analyze"} /\ dpc \in {"returned", "raised"}
        /\ ~dPaper.found) =>
        dStatus = 404

\* C35, the analyze half alone: POST /analyze/{paper_id} answers 404 when
\* the paper is not found.
C35_AnalyzeOfUnknownPaperIsAnswered404 ==
    (dOp = "analyze" /\ dpc \in {"returned", "raised"} /\ ~dPaper.found) =>
        dStatus = 404

----------------------------------------------------------------------------
(* Properties of the executor (checked under SpecPool and SpecPoolFair)    *)

\* the generation calls of API requests that are in flight
InFlightApi == {r \in Requests : ppc[r] = "running" /\ pVia[r] = "api"}

\* C18: at every moment at most 2 generation calls are in flight, for any
\* number of analyze requests and health probes under way in the API, each
\* of which gets its ResearchService by dependency injection.
C18_AtMostTwoGenerationsInFlight ==
    Cardinality(InFlightApi) <= 2

\* C19: a generation submitted while its executor is at the ceiling is
\* queued and never rejected; given that every running generation ends,
\* every queued request starts and its call returns.
C19_QueuedRequestsStartAndReturn ==
    /\ [](\A r \in Requests :
            /\ ppc[r] # "rejected"
            /\ pAtCeiling[r] => ppc[r] \in {"queued", "running", "finished", "returned"})
    /\ \A r \in Requests : (ppc[r] = "queued") ~> (ppc[r] = "running")
    /\ \A r \in Requests : (ppc[r] = "queued") ~> (ppc[r] = "returned")

\* a request that was submitted at the ceiling has returned
C19_Witness ==
    \E r \in Requests :
        /\ pAtCeiling[r]
        /\ pVia[r] = "service"
        /\ ppc[r] = "returned"

----------------------------------------------------------------------------
(* Properties of _parse_analysis_response (checked under SpecParse)        *)

Fields == {"summary", "key_findings", "methodology", "applications", "future_work"}
ScalarFields == {"summary", "methodology"}

\* "Summary:\nThis paper is great.\nKey Findings:\n- A\n- B\n"
ExampleText ==
    L_summary \o <<"\n">> \o L_great \o <<"\n">> \o L_key_findings \o <<"\n">>
      \o L_A \o <<"\n">> \o L_B \o <<"\n">>

\* what each line is: "blank", "content", or the section it is the header of
KindsOf(lines) ==
    [i \in 1..Len(lines) |->
        LET line == Strip(lines[i])
            header == SectionOf(line)
        IN  IF line = <<>> THEN "blank"
            ELSE IF \A k \in 1..Len(line) : line[k] # ":" THEN "content"
            ELSE IF header = "none" THEN "content"
            ELSE header]

\* the line without its surrounding blanks and without one leading "- "
Unbulleted(raw) ==
    IF StartsWith(Strip(raw), <<"-", " ">>) THEN Drop(Strip(raw), 2) ELSE Strip(raw)

\* the section that line i lies in: that of the nearest header before it
RECURSIVE SectionAt(_, _)
SectionAt(kinds, i) ==
    IF i = 0 THEN "none"
    ELSE IF kinds[i] \in Fields THEN kinds[i]
    ELSE SectionAt(kinds, i - 1)

\* the content lines of section f among the first n lines, in order
RECURSIVE ContentOf(_, _, _, _)
ContentOf(lines, kinds, f, n) ==
    IF n = 0 THEN <<>>
    ELSE IF kinds[n] = "content" /\ SectionAt(kinds, n) = f
         THEN Append(ContentOf(lines, kinds, f, n - 1), Unbulleted(lines[n]))
         ELSE ContentOf(lines, kinds, f, n - 1)

ExpectedField(lines, kinds, f) ==
    IF f \in ScalarFields
    THEN JoinSpace(ContentOf(lines, kinds, f, Len(lines)))
    ELSE ContentOf(lines, kinds, f, Len(lines))

EndsWith(s, suffix) ==
    Len(s) >= Len(suffix) /\ Drop(s, Len(s) - Len(suffix)) = suffix

\* C20: parsing "Summary:\nThis paper is great.\nKey Findings:\n- A\n- B\n"
\* gives summary "This paper is great.", key_findings ["A", "B"] and the
\* other fields empty. In general a content line after a header goes to
\* that header's field, as the last of its content so far, with one leading
\* "- " taken off; where a header occurs once, its field holds all the
\* content lines of its section in order, joined by spaces for a scalar
\* field and as a list for a list field.
C20_ContentGoesToItsHeadersField ==
    /\ (rpc = "returned" /\ rResponse = Str(ExampleText)) =>
          rResult = [error |-> FALSE, raw_response |-> None,
                     analysis |-> [summary |-> L_great,
                                   key_findings |-> << <<"A">>, <<"B">> >>,
                                   methodology |-> <<>>,
                                   applications |-> <<>>,
                                   future_work |-> <<>>]]
    /\ (rpc = "returned" /\ rResponse.t = "str") =>
          LET kinds == KindsOf(rLines)
          IN  /\ ~rResult.error
              /\ \A f \in Fields :
                   Cardinality({i \in 1..Len(rLines) : kinds[i] = f}) <= 1 =>
                       rResult.analysis[f] = ExpectedField(rLines, kinds, f)
    /\ rpc = "loop" =>
          LET kinds == KindsOf(rLines)
              f == SectionAt(kinds, Len(rLines))
              line == Unbulleted(rLines[Len(rLines)])
          IN  (kinds[Len(rLines)] = "content" /\ f # "none") =>
                IF f \in ScalarFields
                THEN EndsWith(analysis[f], line)
                ELSE analysis[f] # <<>> /\ analysis[f][Len(analysis[f])] = line

\* the text of the example has been parsed
C20_Witness ==
    /\ rpc = "returned"
    /\ rResponse = Str(ExampleText)
    /\ rResult.analysis.summary = L_great
    /\ rResult.analysis.key_findings = << <<"A">>, <<"B">> >>

NoHeaderIn(lines) ==
    LET kinds == KindsOf(lines)
    IN  \A i \in 1..Len(lines) : kinds[i] \in {"blank", "content"}

\* C21: a text in which no line is a section header gives all five fields
\* at their empty defaults and the parser does not raise; every line before
\* the first header is discarded: it changes no field and is not gathered.
C21_LinesBeforeFirstHeaderAreDiscarded ==
    /\ rpc # "raised"
    /\ (rpc \in {"loop", "returned"} /\ rResponse \notin NotText /\ NoHeaderIn(rLines)) =>
          /\ current_section = "none"
          /\ current_text = <<>>
          /\ analysis = EmptyAnalysis
          /\ rpc = "returned" =>
                rResult = [error |-> FALSE, analysis |-> EmptyAnalysis,
                           raw_response |-> None]

\* three content lines and no header have been parsed
C21_Witness ==
    /\ rpc = "returned"
    /\ Len(rLines) >= 3
    /\ NoHeaderIn(rLines)
    /\ rLines[1] = L_great
    /\ rResult.analysis = EmptyAnalysis

\* C22: an input that is no text (null, for one) does not make the parser
\* raise: it returns an error result that carries the input as raw_response.
C22_NotTextGivesErrorResult ==
    /\ rpc # "raised"
    /\ (rpc = "returned" /\ rResponse \in NotText) =>
          /\ rResult.error
          /\ rResult.raw_response = rResponse
    /\ (rpc = "returned" /\ rResponse \notin NotText) => ~rResult.error

\* null has been given to the parser
C22_Witness ==
    /\ rpc = "returned"
    /\ rResponse = None
    /\ rResult.error
    /\ rResult.raw_response = None

\* the content lines from line i up to the next header, each without its
\* surrounding blanks and one leading "- "
RECURSIVE ContentFrom(_, _, _)
ContentFrom(lines, kinds, i) ==
    IF i > Len(lines) \/ kinds[i] \in Fields THEN <<>>
    ELSE IF kinds[i] = "content"
         THEN <<Unbulleted(lines[i])>> \o ContentFrom(lines, kinds, i + 1)
         ELSE ContentFrom(lines, kinds, i + 1)

\* the headers of section f that are followed by a content line before the
\* next header
FilledHeaders(lines, kinds, f) ==
    {h \in 1..Len(lines) : kinds[h] = f /\ ContentFrom(lines, kinds, h + 1) # <<>>}

\* the content that followed the last of them; nothing when there is none
LatestContent(lines, kinds, f) ==
    LET filled == FilledHeaders(lines, kinds, f)
    IN  IF filled = {} THEN <<>>
        ELSE ContentFrom(lines, kinds,
                         (CHOOSE h \in filled : \A g \in filled : g <= h) + 1)

\* C31: each field holds the content lines (joined by spaces for summary
\* and methodology, as a list for the others) that followed the most
\* recent header of its section that had a content line before the next
\* header: the content of an earlier occurrence of the header is replaced
\* and not added to, and a repeated header with no content after it leaves
\* the field as it was.
C31_LatestFilledOccurrenceWins ==
    (rpc \in {"loop", "returned"} /\ rResponse.t = "str") =>
        LET kinds == KindsOf(rLines)
        IN  /\ \A f \in Fields :
                  analysis[f] =
                      IF f \in ScalarFields
                      THEN JoinSpace(LatestContent(rLines, kinds, f))
                      ELSE LatestContent(rLines, kinds, f)
            /\ rpc = "returned" => rResult.analysis = analysis

\* "Key Findings:", "- A", "Key Findings:", "- B", "Key Findings:" has been
\* parsed: the second content replaced the first, the third header
\* changed nothing
C31_Witness ==
    /\ rpc = "returned"
    /\ Len(rLines) >= 5
    /\ SubSeq(rLines, 1, 5) = <<L_key_findings, L_A, L_key_findings, L_B, L_key_findings>>
    /\ rResult.analysis.key_findings = << <<"B">> >>

----------------------------------------------------------------------------
(* Headers inside a section (checked under SpecParseHeaders)               *)

\* `word`, given in lower case, occurs in `line` in whatever case
OccursIgnoringCase(line, word) ==
    \E i \in 1..(Len(line) - Len(word) + 1) :
        \A k \in 1..Len(word) : LowerChar(line[i + k - 1]) = word[k]

\* the sections one of whose keywords the line holds
KeywordSections(line) ==
    {f \in Fields :
        \/ f = "summary" /\ OccursIgnoringCase(line, <<"s","u","m","m","a","r","y">>)
        \/ f = "key_findings"
             /\ OccursIgnoringCase(line, <<"k","e","y"," ","f","i","n","d","i","n","g","s">>)
        \/ f = "methodology"
             /\ OccursIgnoringCase(line, <<"m","e","t","h","o","d","o","l","o","g","y">>)
        \/ f = "applications"
             /\ OccursIgnoringCase(line, <<"a","p","p","l","i","c","a","t","i","o","n","s">>)
        \/ f = "future_work"
             /\ OccursIgnoringCase(line, <<"f","u","t","u","r","e">>)
             /\ OccursIgnoringCase(line, <<"r","e","s","e","a","r","c","h">>)}

\* a non-blank line with a colon and a header keyword somewhere in it
IsKeywordLine(raw) ==
    /\ Strip(raw) # <<>>
    /\ \E k \in 1..Len(raw) : raw[k] = ":"
    /\ KeywordSections(Strip(raw)) # {}

\* C30: every non-blank line that holds a colon and a header keyword
\* anywhere in its lower-cased text is taken as a section header, also
\* inside the body of a section: the step that reads it switches the
\* current section to the keyword's, empties the accumulator and changes
\* no field, so none of the line's text reaches a field.
C30_KeywordLineIsAlwaysAHeader ==
    [][(rLines' # rLines /\ IsKeywordLine(rLines'[Len(rLines')])) =>
          /\ current_section' \in KeywordSections(Strip(rLines'[Len(rLines')]))
          /\ current_text' = <<>>
          /\ analysis' = analysis]_vars

\* "- Applications: robotics" has been read inside the summary section
C30_Witness ==
    /\ rpc = "loop"
    /\ rLines = <<L_summary, L_A, L_robotics>>
    /\ current_section = "applications"
    /\ current_text = <<>>
    /\ analysis.summary = <<"A">>
    /\ analysis.applications = <<>>

----------------------------------------------------------------------------
(* Properties of DatabaseService (checked under SpecStore)                 *)

WithSourceId(source_id) == {r \in dbRows : r.source_id = source_id}

\* the record has a source_id and a title, empty or not
Storable(rec) == rec.source_id # None /\ rec.title # None

\* the call met no storage failure
Clean(s) == sErr[s] # "storage" /\ ~sFail[s]

\* C23: the store never holds two rows with one source_id; a store call
\* for a source_id that has a row already returns that row, creates none and
\* changes none: every row stays in the store exactly as it was written.
C23_FirstWriteWins ==
    /\ [](\A r1, r2 \in dbRows : r1.source_id = r2.source_id => r1 = r2)
    /\ [](\A s \in Sessions :
            (spc[s] = "returned" /\ sErr[s] = "unique" /\ ~sFail[s]) =>
                /\ sRet[s].t = "dict"
                /\ sRet[s].row \in WithSourceId(sRec[s].source_id)
                /\ ~sAdded[s])
    /\ [][dbRows \subseteq dbRows']_vars

\* a second store of "x" with another summary has returned the first row
C23_Witness ==
    \E s \in Sessions :
        /\ spc[s] = "returned"
        /\ sErr[s] = "unique"
        /\ sRec[s].source_id = SID_x
        /\ sRet[s].t = "dict"
        /\ sRet[s].row.summary # sRec[s].summary
        /\ Cardinality(dbRows) = 1

\* C24: when the latest store calls of the two sessions were under way at
\* the same time with the same source_id (records that have a source_id
\* and a title, no storage failure), then after both have returned there
\* is exactly one row of that source_id, both calls have returned it, and
\* it is the row of the call whose insert was committed.
C24_ConcurrentStoresReturnOneRow ==
    (/\ \A s \in Sessions : spc[s] = "returned" /\ Storable(sRec[s]) /\ Clean(s)
     /\ sOverlap
     /\ sRec[1].source_id = sRec[2].source_id) =>
        /\ Cardinality(WithSourceId(sRec[1].source_id)) = 1
        /\ \A s \in Sessions :
              /\ sRet[s].t = "dict"
              /\ sRet[s].row \in WithSourceId(sRec[1].source_id)
              /\ sAdded[s] => sRet[s].row = sRow[s]
        /\ sRet[1] = sRet[2]

\* two overlapping stores of "x" with different summaries: the second
\* session's insert was committed and the first session returned its row
C24_Witness ==
    /\ \A s \in Sessions : spc[s] = "returned" /\ sRec[s].source_id = SID_x
    /\ sOverlap
    /\ sRec[1].summary # sRec[2].summary
    /\ sAdded[2]
    /\ sErr[1] = "unique"
    /\ sRet[1] = sRet[2]
    /\ sRet[1].row = sRow[2]

\* C25: a store call whose INSERT or COMMIT failed with an error other than
\* a uniqueness violation has returned None, has rolled back and has added
\* no row.
C25_OtherStorageErrorsReturnNone ==
    \A s \in Sessions :
        (spc[s] = "returned" /\ sErr[s] \in {"notnull", "storage"}) =>
            /\ sRet[s] = NoneReturn
            /\ ~sAdded[s]

\* C26: a step in which get_paper_analysis, get_recent_analyses or
\* get_paper_stats returns, with a result or after a caught error, leaves
\* the set of rows and every field of every row as it was.
C26_ReadsLeaveTheStoreUnchanged ==
    [][qLast' # NoQuery => dbRows' = dbRows]_vars

\* a listing returned one of two rows, and both are still stored
C26_Witness ==
    /\ qLast.op = "get_recent_analyses"
    /\ ~qLast.failed
    /\ Len(qLast.list) = 1
    /\ Cardinality(dbRows) = 2

Lacks(rec) ==
    \/ rec.source_id.t # "str" \/ rec.source_id.s = <<>>
    \/ rec.title.t # "str" \/ rec.title.s = <<>>

\* C29: every stored row has a source_id and a title that are present and
\* not empty, and a store call whose record lacks one of them adds no row.
C29_StoredRowsHaveIdAndTitle ==
    /\ \A r \in dbRows : ~Lacks(r)
    /\ \A s \in Sessions : (spc[s] = "returned" /\ Lacks(sRec[s])) => ~sAdded[s]

====
